---- MODULE Spec2Model ----
(***************************************************************************)
(* A model of the capture-to-translation pipeline of                       *)
(* src-tauri/src/audio/manager.rs, of the speaker clusterer of             *)
(* src-tauri/src/audio/speaker.rs, of the whisper-server manager of        *)
(* src-tauri/src/whisper_server.rs, of the index and the project list of   *)
(* src-tauri/src/rag and of the live translation events of                 *)
(* src-tauri/src/egui_app.rs.                                              *)
(*                                                                         *)
(* The specifications share the module's variables:                        *)
(*   SpecQueue    the TranslationQueue alone, driven by arbitrary calls;   *)
(*   SpecCapture  run_capture's segmentation loop, the rolling-window      *)
(*                dispatch, the rolling-window worker and the VAD worker,  *)
(*                frame by frame;                                          *)
(*   Spec         the threads that share the SegmentIndex (capture,        *)
(*                transcription worker, translation worker, the UI         *)
(*                commands), one step per lock section or atomic access.   *)
(*   SpecWhisper  WhisperServerManager under concurrent ensure_started,    *)
(*                stop and exits of the child process;                     *)
(*   SpecChunker  one call of chunk_text, window by window;                *)
(*   SpecRag      RagService over a store and a project directory, one     *)
(*                action per call or edit of the directory;                *)
(*   SpecLoop     one capture session that is not stopped, with a silence  *)
(*                threshold of two frames; SpecLoopFair adds the fairness  *)
(*                of the rolling-window worker;                            *)
(*   SpecProjects the project list (projects.json) under create, delete,   *)
(*                index_add_files and index_sync_project;                  *)
(*   SpecObserver the live translation fields of the observer window, one  *)
(*                action per event;                                        *)
(*   SpecContext  the prompt context of run_transcription_worker, task by  *)
(*                task;                                                    *)
(*   SpecSpeaker  SpeakerClusterer::classify, call by call;                *)
(*   SpecChunkerLong  SpecChunker with texts longer than the boundary      *)
(*                search of 120 characters;                                *)
(*   SpecTranslate  two capture sessions with translate_segment commands   *)
(*                for two providers;                                       *)
(*   SpecStop     sessions that are started and stopped, never cleared;    *)
(*                SpecStopFair adds the fairness of the threads;           *)
(*   SpecClear    one capture session ended by clear, frame by frame;      *)
(*   SpecIndex    SpecRag with index_remove_files and no failing call.     *)
(*                                                                         *)
(* Option<T> is modelled as a sequence: <<>> is None, <<v>> is Some(v).    *)
(* A string is a sequence of one-character strings.                        *)
(* Audio is modelled per frame (one frame = `channels` interleaved         *)
(* samples); a frame is named by its position in the captured stream.      *)
(***************************************************************************)
EXTENDS Naturals, Integers, Sequences, FiniteSets, TLC

VARIABLES
  \* ---- CaptureManager fields and the state behind TaskQueues
  segments,                 \* Arc<Mutex<Vec<SegmentInfo>>>
  disk,                     \* the list stored in <segments_dir>/index.json
  translation_pending,      \* HashMap<String, Option<String>>
  translation_queue,        \* TranslationQueueState {items, pending}
  transcription_generation, \* AtomicU64
  translation_generation,   \* AtomicU64
  drop_segment_translation, \* AtomicBool
  translation_in_flight,    \* AtomicBool
  transcribe_rx,            \* mpsc channel of TranscriptionTask
  queues,                   \* CaptureManager.queues is Some
  handle,                   \* CaptureManager.handle: "none" | "running"
  stop,                     \* CaptureHandle.stop
  \* ---- SpecQueue: what the calls returned
  q_ret,                    \* the request returned by the last pop / try_pop
  q_clock,                  \* number of push calls made
  q_stamp,                  \* name -> the push call that queued it
  \* ---- SpecCapture: run_capture and its workers
  config,                   \* AudioConfig and AsrConfig.use_whisper_vad
  cap,                      \* the capture thread: run_capture's position and locals
  stream_pos,               \* frames the loopback source has delivered
  window_in_flight,         \* TaskQueues.window_in_flight
  window_rx,                \* mpsc channel of WindowTask
  ww,                       \* run_window_worker's position and task
  vad_rx,                   \* mpsc channel of VadTask
  wav_files,                \* segment_*.wav files in the segments directory
  obs,                      \* observations of the capture loop (see CapObs)
  vw,                       \* run_vad_worker's position and task
  \* ---- Spec: the threads around the SegmentIndex
  tw,                       \* run_transcription_worker
  xw,                       \* run_translation_worker
  ctl,                      \* start / stop / clear command
  tx,                       \* translate_segment command
  next_name,                \* segment names handed out so far
  log,                      \* segment_translated events emitted
  ctq_returned,             \* translation_generation when clear_task_queues last returned
  dequeued,                 \* <<generation, order>> of the requests the worker popped
  late_push,                \* generations with a push below an order already popped
  budget,                   \* calls left to the commands
  \* ---- SpecWhisper: the whisper-server supervisor
  ws_state,                 \* WhisperServerManager.state: Mutex<ServerState>
  ws_alive,                 \* whisper-server child processes that are running
  ws_th,                    \* the threads calling ensure_started
  ws_env,                   \* device preference and the files that exist
  ws_count,                 \* children spawned, calls made, ensure_started calls since the last stop
  \* ---- SpecChunker: one chunk_text call
  ck,                       \* chunk_text's arguments, position and locals
  \* ---- SpecRag: the RagService and what it works on
  rag_store,                \* RagService.store: the chunks and the file manifest
  rag_files,                \* the files in the project's root directory
  rag_ret,                  \* the last call of the service and what it returned
  rag_clean,                \* projects synced with nothing changed since
  rag_count,                \* calls made, and the calls, edits and faults left
  \* ---- SpecProjects: the project index of rag/projects.rs
  pj_index,                 \* ProjectsIndex.projects as stored in projects.json
  pj_ret,                   \* the last call and what it returned
  pj_count,                 \* calls made so far
  \* ---- SpecObserver: the live translation panel of egui_app.rs
  ob,                       \* EguiApp's live_stream_* and live_final fields
  ob_streams,               \* the translate_live calls and how far each has come
  ob_last,                  \* the last event handled, and the fields before it
  ob_count,                 \* events handled so far
  \* ---- SpecContext, SpecSpeaker: state owned by one worker thread
  wc,                       \* run_transcription_worker's WhisperContextState
  sp                        \* SpeakerDiarizer.clusterer and its configuration

shvars == <<segments, disk, translation_pending, translation_queue,
            transcription_generation, translation_generation,
            drop_segment_translation, translation_in_flight,
            transcribe_rx, queues, handle, stop>>
qvars == <<q_ret, q_clock, q_stamp>>
capvars == <<config, cap, stream_pos, window_in_flight, window_rx, ww, vad_rx,
             vw, wav_files, obs, next_name>>
pipevars == <<tw, xw, ctl, tx, log, ctq_returned, dequeued, late_push, budget>>
wsvars == <<ws_state, ws_alive, ws_th, ws_env, ws_count>>
ragvars == <<rag_store, rag_files, rag_ret, rag_clean, rag_count>>
appvars == <<pj_index, pj_ret, pj_count, ob, ob_streams, ob_last, ob_count>>
auxvars == <<wc, sp>>
svcvars == <<wsvars, ck, ragvars, appvars, auxvars>>
vars == <<shvars, qvars, capvars, pipevars, svcvars>>

-----------------------------------------------------------------------------
(* Bounds of the model *)

MaxNames == 3          \* SpecQueue: distinct segment names
MaxOrder == 2          \* SpecQueue: largest in-list order of a request
MaxPushes == 4         \* SpecQueue: push calls
MaxFrames == 6         \* SpecCapture: frames the loopback source delivers
MaxBatch == 2          \* SpecCapture: frames in one read
MaxStarts == 1         \* start commands
MaxStops == 1          \* stop commands
MaxClears == 1         \* clear commands
MaxTranslates == 2     \* translate_segment commands
MaxSegments == 2       \* Spec: segments the capture loop finalizes

-----------------------------------------------------------------------------
(* Generic helpers *)

None == <<>>
Some(v) == <<v>>
IsSome(o) == o # <<>>
Unwrap(o) == o[1]

Max2(a, b) == IF a >= b THEN a ELSE b

\* usize::MAX of segment_order: larger than every position in the list
UsizeMax == MaxOrder + 1000

-----------------------------------------------------------------------------
(* TranslationQueue *)

TranslationRequest(name, provider, order, generation) ==
  [name |-> name, provider |-> provider, order |-> order, generation |-> generation]

TranslationQueue_new == [items |-> <<>>, pending |-> {}]

\* the position of a plain push_back
InsertAtEnd(items, request) == Len(items) + 1

\* the position found with <= in place of <
InsertAtNotStrict(items, request) ==
  LET hits == {i \in 1..Len(items) : request.order <= items[i].order}
  IN IF hits = {} THEN Len(items) + 1
     ELSE CHOOSE i \in hits : \A j \in hits : i <= j

\* items.iter().position(|item| request.order < item.order).unwrap_or(len)
InsertAt(items, request) ==
  LET hits == {i \in 1..Len(items) : request.order < items[i].order}
  IN IF hits = {} THEN Len(items) + 1
     ELSE CHOOSE i \in hits : \A j \in hits : i <= j

\* a push that does not look at the pending set
TranslationQueue_pushAlways(q, request) ==
  LET at == InsertAt(q.items, request)
  IN [items |-> SubSeq(q.items, 1, at - 1) \o <<request>>
                  \o SubSeq(q.items, at, Len(q.items)),
      pending |-> q.pending \cup {request.name}]

TranslationQueue_push(q, request) ==
  IF request.name \in q.pending THEN q
  ELSE LET at == InsertAt(q.items, request)
       IN [items |-> SubSeq(q.items, 1, at - 1) \o <<request>>
                       \o SubSeq(q.items, at, Len(q.items)),
           pending |-> q.pending \cup {request.name}]

\* the state left by pop / try_pop when items is not empty
TranslationQueue_pop(q) ==
  [items |-> Tail(q.items), pending |-> q.pending \ {Head(q.items).name}]

\* the request pop / try_pop returns when items is not empty
TranslationQueue_front(q) == Head(q.items)

TranslationQueue_clear(q) == [items |-> <<>>, pending |-> {}]

TranslationQueue_len(q) == Len(q.items)

-----------------------------------------------------------------------------
(* SegmentInfo and the SegmentIndex *)

\* what SegmentWriter::finalize returns: no transcript, no translation
SegmentInfo(name, duration_ms) ==
  [name |-> name, duration_ms |-> duration_ms,
   transcript |-> None, translation |-> None]

Position(list, name) ==
  LET hits == {i \in 1..Len(list) : list[i].name = name}
  IN IF hits = {} THEN 0 ELSE CHOOSE i \in hits : \A j \in hits : i <= j

Found(list, name) == Position(list, name) # 0

\* segments.iter().position(..).unwrap_or(usize::MAX), positions counted from 0
segment_order(list, name) ==
  IF Found(list, name) THEN Position(list, name) - 1 ELSE UsizeMax

\* a variant of push_segment that puts the new segment in front
push_segment_front(list, info) == <<info>> \o list

\* guard.push(info.clone())
push_segment(list, info) == Append(list, info)

\* a variant of apply_transcript that stores the non-empty transcript_text it
\* computes: None for an empty text
SetTranscriptNonEmpty(list, name, text) ==
  [i \in 1..Len(list) |->
     IF i = Position(list, name)
     THEN [list[i] EXCEPT !.transcript = IF text = <<>> THEN None ELSE Some(text)]
     ELSE list[i]]

\* the segment named `name` gets transcript Some(text)
SetTranscript(list, name, text) ==
  [i \in 1..Len(list) |->
     IF i = Position(list, name) THEN [list[i] EXCEPT !.transcript = Some(text)]
     ELSE list[i]]

\* the segment named `name` gets translation Some(text)
SetTranslation(list, name, text) ==
  [i \in 1..Len(list) |->
     IF i = Position(list, name) THEN [list[i] EXCEPT !.translation = Some(text)]
     ELSE list[i]]

TranscriptOf(list, name) ==
  IF Found(list, name) THEN list[Position(list, name)].transcript ELSE None

-----------------------------------------------------------------------------
(* The states of the threads before anything has run *)

\* run_capture's locals as declared at lines 755-760, and the thread's position
CaptureLocals(pc) ==
  [pc |-> pc, pre_roll |-> <<>>, current_writer |-> None,
   segment_frames |-> 0, silence_frames |-> 0,
   rolling_buffer |-> <<>>, rolling_since_emit |-> 0,
   info |-> None, snapshot |-> None, exiting |-> FALSE]

WindowWorkerIdle == [pc |-> "recv", task |-> None]
VadWorkerIdle == [pc |-> "recv", info |-> None, snapshot |-> None]
TranscriptionWorkerIdle ==
  [pc |-> "recv", name |-> 0, asr |-> None, snapshot |-> None,
   provider |-> None, order |-> 0, generation |-> 0]
SegmentTranslationHistory_default ==
  [generation |-> 0, provider |-> None, previous_batch |-> <<>>]
TranslationWorkerIdle ==
  [pc |-> "pop", first |-> None, history |-> SegmentTranslationHistory_default,
   active_generation |-> 0, items |-> <<>>, context |-> <<>>, all_names |-> <<>>,
   result |-> None, idx |-> 0, snapshot |-> None, at_write |-> 0]
CommandIdle == [pc |-> "idle", op |-> "none"]
TranslateSegmentIdle ==
  [pc |-> "idle", name |-> 0, provider |-> None, order |-> 0, generation |-> 0]

ObsNone ==
  [tick |-> "none", open_pos |-> 0, open_len |-> 0, session_from |-> 0,
   fin |-> None]

\* AudioConfig in frames-independent units (ms), with AsrConfig.use_whisper_vad
AudioConfig(min_segment_ms, min_silence_ms, max_segment_ms, min_transcribe_ms, pre_roll_ms, rolling, use_whisper_vad) ==
  [min_segment_ms |-> min_segment_ms, min_silence_ms |-> min_silence_ms,
   max_segment_ms |-> max_segment_ms, min_transcribe_ms |-> min_transcribe_ms,
   pre_roll_ms |-> pre_roll_ms, rolling |-> rolling,
   rolling_window_ms |-> 6, rolling_step_ms |-> 2, rolling_min_ms |-> 2,
   use_whisper_vad |-> use_whisper_vad]

\* CaptureManager::new
InitShared ==
  /\ segments = <<>>
  /\ disk = <<>>
  /\ translation_pending = << >>
  /\ translation_queue = TranslationQueue_new
  /\ transcription_generation = 0
  /\ translation_generation = 0
  /\ drop_segment_translation = TRUE
  /\ translation_in_flight = FALSE
  /\ transcribe_rx = <<>>
  /\ queues = FALSE
  /\ handle = "none"
  /\ stop = FALSE

InitQueueCalls ==
  /\ q_ret = None
  /\ q_clock = 0
  /\ q_stamp = << >>

InitCaptureThreads ==
  /\ cap = CaptureLocals("none")
  /\ stream_pos = 0
  /\ window_in_flight = FALSE
  /\ window_rx = <<>>
  /\ ww = WindowWorkerIdle
  /\ vad_rx = <<>>
  /\ vw = VadWorkerIdle
  /\ wav_files = {}
  /\ obs = ObsNone
  /\ next_name = 0

InitPipelineThreads ==
  /\ tw = TranscriptionWorkerIdle
  /\ xw = TranslationWorkerIdle
  /\ ctl = CommandIdle
  /\ tx = TranslateSegmentIdle
  /\ log = <<>>
  /\ ctq_returned = 0
  /\ dequeued = {}
  /\ late_push = {}

\* WhisperServerManager::new
ServerState_new ==
  [child |-> None, url |-> None, device |-> None, starting |-> FALSE]

\* an ensure_started call that has not begun: its position, the locals of
\* start_server / spawn_server, and what happened to each device in this call
EnsureIdle ==
  [pc |-> "idle", device |-> "none", child |-> 0, result |-> None,
   ret |-> "none", gpu |-> "none", cpu |-> "none"]

MaxCallers == 2        \* SpecWhisper: threads that call ensure_started
WsThreads == 1..MaxCallers

InitWhisperIdle ==
  /\ ws_state = ServerState_new
  /\ ws_alive = {}
  /\ ws_th = [t \in WsThreads |-> EnsureIdle]
  /\ ws_env = [pref |-> "Auto", gpu_exe |-> FALSE, cpu_exe |-> FALSE,
               model |-> FALSE]
  /\ ws_count = [spawned |-> 0, ensures |-> 0, stops |-> 0, exits |-> 0,
                  since_stop |-> 0]

\* a chunk_text call on the empty text that has returned
ChunkerIdle ==
  [pc |-> "done", text |-> <<>>, chunk_size |-> 0, overlap |-> 0,
   clamped |-> 0, start |-> 0, chunks |-> <<>>, windows |-> <<>>, dropped |-> <<>>]

\* MemoryStore::new / LanceDbStore::new: kind is "memory" or "lancedb"
Store_new(kind) == [kind |-> kind, chunks |-> <<>>, files |-> {}]

\* no call of the RagService has returned since the files last changed
RagNoCall ==
  [op |-> "none", project_id |-> "", names |-> {}, ok |-> TRUE,
   report |-> <<>>, hits |-> <<>>, before |-> <<>>, failed |-> {},
   repeated |-> FALSE, project_ids |-> {}, top_k |-> 0]

InitRagIdle ==
  /\ rag_store = Store_new("memory")
  /\ rag_files = {}
  /\ rag_ret = RagNoCall
  /\ rag_clean = {}
  /\ rag_count = [clock |-> 0, adds |-> 0, syncs |-> 0, searches |-> 0,
                  edits |-> 0, faults |-> 0]

\* no call on the project index has been made
ProjectNoCall ==
  [op |-> "none", ok |-> TRUE, before |-> <<>>, root |-> <<>>, project_id |-> <<>>]

InitProjectsIdle ==
  /\ pj_index = <<>>
  /\ pj_ret = ProjectNoCall
  /\ pj_count = [calls |-> 0]

\* EguiApp::new: the live translation fields
LiveFields_new ==
  [live_stream_order |-> 0, live_stream_set |-> FALSE, live_stream_id |-> <<>>,
   live_final |-> <<>>]

\* no event has been handled
NoEvent == [name |-> "none", order |-> 0, id |-> <<>>, before |-> LiveFields_new,
            seen |-> None]

InitObserverIdle ==
  /\ ob = LiveFields_new
  /\ ob_streams = <<>>
  /\ ob_last = NoEvent
  /\ ob_count = [events |-> 0, clears |-> 0]

InitAppIdle == InitProjectsIdle /\ InitObserverIdle

\* WhisperContextPolicy::from_asr of a configuration without whisper_context_*
\* keys, in the model's units
WhisperContextPolicy_default ==
  [enabled |-> TRUE, max_chars |-> 2, short_segment_ms |-> 1,
   boundary_gap_ms |-> 1, reset_silence_ms |-> 2]

\* WhisperContextState::new
WhisperContextState_new(policy) ==
  [policy |-> policy, history |-> <<>>, previous_end_at |-> None]

\* no prompt_for call has been made
NoPrompt == [called |-> FALSE, meta |-> None, before |-> <<>>, previous_end_at |-> None,
             ret |-> None]

\* the transcription worker's context state before the first task
ContextIdle(policy) ==
  [state |-> WhisperContextState_new(policy), pc |-> "recv", meta |-> None,
   last |-> NoPrompt, tasks |-> 0]

\* SpeakerClusterer::new
SpeakerClusterer_new == [speakers |-> <<>>, next_id |-> 1]

\* no classify call has been made
NoDecision ==
  [called |-> FALSE, before |-> SpeakerClusterer_new, embedding |-> <<>>,
   decision |-> None]

SpeakerIdle(cfg) ==
  [clusterer |-> SpeakerClusterer_new, config |-> cfg, last |-> NoDecision, calls |-> 0]

InitAuxIdle ==
  /\ wc = ContextIdle(WhisperContextPolicy_default)
  /\ sp = SpeakerIdle([new_threshold |-> 0, update_threshold |-> 0, max_speakers |-> None])

InitServices ==
  /\ InitWhisperIdle
  /\ ck = ChunkerIdle
  /\ InitRagIdle
  /\ InitAppIdle
  /\ InitAuxIdle

-----------------------------------------------------------------------------
(* run_capture: the pure parts *)

\* capture.sample_rate() of the modelled device: one frame lasts 2 ms
SampleRate == 500

\* config.<x>_ms.saturating_mul(sample_rate as u64) / 1000
Frames(ms) == (ms * SampleRate) \div 1000

\* SegmentWriter::finalize: frames.saturating_mul(1000) / sample_rate
DurationMs(frames) == IF SampleRate = 0 THEN 0 ELSE (frames * 1000) \div SampleRate

\* while ring.len() > capacity { ring.pop_front() }
TrimFront(ring, capacity) ==
  IF Len(ring) > capacity THEN SubSeq(ring, Len(ring) - capacity + 1, Len(ring))
  ELSE ring

\* the frames a read of n frames delivers at stream position pos
Pcm(pos, n) == [i \in 1..n |-> pos + i]

\* reached_max with the silence counter compared in place of the segment's
ReachedMaxOnSilence(segment_frames, silence_frames, cfg) ==
  Frames(cfg.max_segment_ms) > 0 /\ silence_frames >= Frames(cfg.max_segment_ms)

\* let reached_max = max_segment_frames > 0 && segment_frames >= max_segment_frames
ReachedMax(segment_frames, silence_frames, cfg) ==
  Frames(cfg.max_segment_ms) > 0 /\ segment_frames >= Frames(cfg.max_segment_ms)

\* a variant of the test that takes either of reached_min and reached_silence
ShouldFinalizeEither(segment_frames, silence_frames, cfg) ==
  \/ segment_frames >= Frames(cfg.min_segment_ms)
  \/ silence_frames >= Frames(cfg.min_silence_ms)
  \/ ReachedMax(segment_frames, silence_frames, cfg)

\* (reached_min && reached_silence) || reached_max
ShouldFinalize(segment_frames, silence_frames, cfg) ==
  \/ /\ segment_frames >= Frames(cfg.min_segment_ms)
     /\ silence_frames >= Frames(cfg.min_silence_ms)
  \/ ReachedMax(segment_frames, silence_frames, cfg)

\* a dispatch that does not look at the flag it swapped
RollingDispatchAlways(already_running) == TRUE

\* let already_running = window_in_flight.swap(true); if !already_running { send }
RollingDispatch(already_running) == ~already_running

\* the rolling-window part of one loop iteration: the ring, the step counter
\* and whether a WindowTask is sent
Rolling(c, pcm, in_flight, cfg) ==
  LET window == Frames(cfg.rolling_window_ms)
      step == Frames(cfg.rolling_step_ms)
      enabled == cfg.rolling /\ window > 0 /\ step > 0
      buffer == TrimFront(c.rolling_buffer \o pcm, window)
      since == c.rolling_since_emit + Len(pcm)
      tick == since >= step
      long == Len(buffer) >= Frames(cfg.rolling_min_ms)
      send == tick /\ long /\ RollingDispatch(in_flight)
  IN IF ~enabled
     THEN [buffer |-> c.rolling_buffer, since |-> c.rolling_since_emit,
           in_flight |-> in_flight, send |-> FALSE, tick |-> "none"]
     ELSE [buffer |-> buffer,
           since |-> IF tick THEN 0 ELSE since,
           in_flight |-> IF tick /\ long THEN TRUE ELSE in_flight,
           send |-> send,
           tick |-> IF ~tick THEN "none"
                    ELSE IF ~long THEN "short"
                    ELSE IF send THEN "sent" ELSE "dropped"]

\* WindowTask: the copied ring and frames_in_buffer * 1000 / sample_rate
WindowTask(buffer) == [samples |-> buffer, window_ms |-> DurationMs(Len(buffer))]

\* finalize_segment without the minimum-duration filter
finalize_segment_unfiltered(duration_ms, cfg) ==
  IF cfg.use_whisper_vad THEN "vad" ELSE "push"

\* finalize_segment: where a finalized clip goes
finalize_segment(duration_ms, cfg) ==
  IF cfg.min_transcribe_ms > 0 /\ duration_ms < cfg.min_transcribe_ms THEN "short"
  ELSE IF cfg.use_whisper_vad THEN "vad"
  ELSE "push"

\* finalize_segment_with_vad: where a clip handed to the VAD check goes;
\* should_keep is should_keep_segment's answer (an error counts as keep)
finalize_segment_with_vad(duration_ms, min_transcribe_ms, should_keep) ==
  IF min_transcribe_ms > 0 /\ duration_ms < min_transcribe_ms THEN "short"
  ELSE IF should_keep THEN "push"
  ELSE "reject"

VadTask(info, cfg) == [info |-> info, min_transcribe_ms |-> cfg.min_transcribe_ms]

TranscriptionTask(name, generation) == [name |-> name, generation |-> generation]

-----------------------------------------------------------------------------
(* run_capture: the loop *)

CaptureFrame ==
  UNCHANGED <<svcvars, translation_pending, translation_queue, transcription_generation,
              translation_generation, drop_segment_translation,
              translation_in_flight, queues, handle, stop,
              qvars, config, ww, vw, pipevars>>

\* finalize_segment called with the writer w; c is the thread's state once the
\* call has returned, by names the branch of run_capture that made the call
Finalize(c, w, last_batch, by, tick) ==
  LET frames == Len(w.samples)
      info == SegmentInfo(w.name, DurationMs(frames))
      route == finalize_segment(info.duration_ms, config)
      after == IF by = "stop" THEN "exited" ELSE "loop"
  IN /\ obs' = [obs EXCEPT !.tick = tick,
                            !.fin = Some([name |-> w.name, frames |-> frames,
                                duration_ms |-> info.duration_ms,
                                first_batch |-> obs.open_len,
                                last_batch |-> last_batch,
                                by |-> by, route |-> route])]
     /\ CASE route = "short" ->
               /\ wav_files' = wav_files \ {w.name}
               /\ cap' = [c EXCEPT !.pc = after]
               /\ UNCHANGED vad_rx
          [] route = "vad" ->
               /\ vad_rx' = Append(vad_rx, VadTask(info, config))
               /\ cap' = [c EXCEPT !.pc = after]
               /\ UNCHANGED wav_files
          [] OTHER ->
               /\ cap' = [c EXCEPT !.pc = "push", !.info = Some(info),
                                   !.exiting = (by = "stop")]
               /\ UNCHANGED <<wav_files, vad_rx>>

\* one iteration of `while !stop.load()` that reads n frames
CapRead(n, silent) ==
  /\ cap.pc = "loop"
  /\ ~stop
  /\ stream_pos + n <= MaxFrames
  /\ stream_pos' = stream_pos + n
  /\ IF n = 0
     THEN UNCHANGED <<cap, window_in_flight, window_rx, vad_rx, wav_files, obs,
                      next_name>>
     ELSE
       LET pcm == Pcm(stream_pos, n)
           roll == Rolling(cap, pcm, window_in_flight, config)
           pre_roll == TrimFront(cap.pre_roll \o pcm, Frames(config.pre_roll_ms))
           c1 == [cap EXCEPT !.rolling_buffer = roll.buffer,
                             !.rolling_since_emit = roll.since,
                             !.pre_roll = pre_roll]
       IN /\ window_in_flight' = roll.in_flight
          /\ window_rx' = IF roll.send THEN Append(window_rx, WindowTask(roll.buffer))
                          ELSE window_rx
          /\ IF IsSome(cap.current_writer)
             THEN
               LET w == [Unwrap(cap.current_writer) EXCEPT !.samples = @ \o pcm]
                   segment_frames == cap.segment_frames + n
                   silence_frames == IF silent THEN cap.silence_frames + n ELSE 0
               IN IF ShouldFinalize(segment_frames, silence_frames, config)
                  THEN /\ Finalize([c1 EXCEPT !.current_writer = None,
                                              !.segment_frames = 0,
                                              !.silence_frames = 0],
                                   w, n,
                                   IF ReachedMax(segment_frames, silence_frames, config)
                                   THEN "max" ELSE "silence",
                                   roll.tick)
                       /\ UNCHANGED next_name
                  ELSE /\ cap' = [c1 EXCEPT !.current_writer = Some(w),
                                            !.segment_frames = segment_frames,
                                            !.silence_frames = silence_frames]
                       /\ obs' = [obs EXCEPT !.tick = roll.tick]
                       /\ UNCHANGED <<vad_rx, wav_files, next_name>>
             ELSE IF ~silent
             THEN \* SegmentWriter::start_new, write(pre_roll), write(pcm)
               /\ next_name' = next_name + 1
               /\ wav_files' = wav_files \cup {next_name + 1}
               /\ cap' = [c1 EXCEPT
                            !.current_writer =
                               Some([name |-> next_name + 1, samples |-> pre_roll \o pcm]),
                            !.segment_frames = cap.segment_frames + Len(pre_roll) + n,
                            !.silence_frames = 0]
               /\ obs' = [obs EXCEPT !.tick = roll.tick, !.open_pos = stream_pos,
                                     !.open_len = n]
               /\ UNCHANGED vad_rx
             ELSE
               /\ cap' = c1
               /\ obs' = [obs EXCEPT !.tick = roll.tick]
               /\ UNCHANGED <<vad_rx, wav_files, next_name>>
  /\ UNCHANGED <<segments, disk, transcribe_rx>>
  /\ CaptureFrame

\* a variant of the end of run_capture that drops the open writer
CapObserveStopDrop ==
  /\ cap.pc = "loop"
  /\ stop
  /\ cap' = [cap EXCEPT !.pc = "exited", !.current_writer = None]
  /\ UNCHANGED <<vad_rx, wav_files, obs>>
  /\ UNCHANGED <<segments, disk, transcribe_rx, stream_pos, window_in_flight,
                 window_rx, next_name>>
  /\ CaptureFrame

\* the loop condition reads stop = true: the open writer, if any, is finalized
CapObserveStop ==
  /\ cap.pc = "loop"
  /\ stop
  /\ IF IsSome(cap.current_writer)
     THEN Finalize([cap EXCEPT !.current_writer = None],
                   Unwrap(cap.current_writer), 0, "stop", obs.tick)
     ELSE /\ cap' = [cap EXCEPT !.pc = "exited"]
          /\ UNCHANGED <<vad_rx, wav_files, obs>>
  /\ UNCHANGED <<segments, disk, transcribe_rx, stream_pos, window_in_flight,
                 window_rx, next_name>>
  /\ CaptureFrame

\* push_segment, the lock section: append and take the snapshot
CapPush ==
  /\ cap.pc = "push"
  /\ segments' = push_segment(segments, Unwrap(cap.info))
  /\ cap' = [cap EXCEPT !.pc = "save", !.snapshot = Some(segments')]
  /\ UNCHANGED <<disk, transcribe_rx, stream_pos, window_in_flight, window_rx,
                 vad_rx, wav_files, obs, next_name>>
  /\ CaptureFrame

\* push_segment, after the lock: save_index(snapshot), emit segment_created
CapSave ==
  /\ cap.pc = "save"
  /\ disk' = Unwrap(cap.snapshot)
  /\ cap' = [cap EXCEPT !.pc = "send", !.snapshot = None]
  /\ UNCHANGED <<segments, transcribe_rx, stream_pos, window_in_flight, window_rx,
                 vad_rx, wav_files, obs, next_name>>
  /\ CaptureFrame

\* enqueue_transcription
CapSend ==
  /\ cap.pc = "send"
  /\ transcribe_rx' = Append(transcribe_rx,
                             TranscriptionTask(Unwrap(cap.info).name,
                                               transcription_generation))
  /\ cap' = [cap EXCEPT !.pc = IF cap.exiting THEN "exited" ELSE "loop",
                        !.info = None, !.exiting = FALSE]
  /\ UNCHANGED <<segments, disk, stream_pos, window_in_flight, window_rx,
                 vad_rx, wav_files, obs, next_name>>
  /\ CaptureFrame

-----------------------------------------------------------------------------
(* run_window_worker *)

WindowFrame ==
  UNCHANGED <<svcvars, shvars, qvars, config, cap, stream_pos, vad_rx, vw, wav_files, obs,
              next_name, pipevars>>

\* rx.recv()
WwRecv ==
  /\ queues
  /\ ww.pc = "recv"
  /\ window_rx # <<>>
  /\ ww' = [pc |-> "work", task |-> Some(Head(window_rx))]
  /\ window_rx' = Tail(window_rx)
  /\ UNCHANGED window_in_flight
  /\ WindowFrame

\* a variant of the worker that stores false only after it has emitted
\* window_transcribed
WwFinishAfterEmit(outcome) ==
  /\ ww.pc = "work"
  /\ outcome \in {"path_error", "write_error", "asr_error", "emitted"}
  /\ window_in_flight' = IF outcome = "emitted" THEN FALSE ELSE window_in_flight
  /\ ww' = WindowWorkerIdle
  /\ UNCHANGED window_rx
  /\ WindowFrame

\* the rest of the loop body: whichever way the task ends (scratch path error,
\* WAV write error, ASR error, window_transcribed emitted), in_flight is stored
\* false before the next recv
WwFinish(outcome) ==
  /\ ww.pc = "work"
  /\ outcome \in {"path_error", "write_error", "asr_error", "emitted"}
  /\ window_in_flight' = FALSE
  /\ ww' = WindowWorkerIdle
  /\ UNCHANGED window_rx
  /\ WindowFrame

-----------------------------------------------------------------------------
(* run_vad_worker *)

VadFrame ==
  UNCHANGED <<svcvars, translation_pending, translation_queue, transcription_generation,
              translation_generation, drop_segment_translation,
              translation_in_flight, queues, handle, stop,
              qvars, config, cap, stream_pos, window_in_flight, window_rx, ww,
              obs, next_name, pipevars>>

\* rx.recv() and finalize_segment_with_vad up to push_segment
VwRecv(should_keep) ==
  /\ queues
  /\ vw.pc = "recv"
  /\ vad_rx # <<>>
  /\ vad_rx' = Tail(vad_rx)
  /\ LET task == Head(vad_rx)
         route == finalize_segment_with_vad(task.info.duration_ms,
                                            task.min_transcribe_ms, should_keep)
     IN IF route = "push"
        THEN /\ vw' = [vw EXCEPT !.pc = "push", !.info = Some(task.info)]
             /\ UNCHANGED wav_files
        ELSE /\ wav_files' = wav_files \ {task.info.name}
             /\ UNCHANGED vw
  /\ UNCHANGED <<segments, disk, transcribe_rx>>
  /\ VadFrame

\* push_segment, the lock section
VwPush ==
  /\ vw.pc = "push"
  /\ segments' = push_segment(segments, Unwrap(vw.info))
  /\ vw' = [vw EXCEPT !.pc = "save", !.snapshot = Some(segments')]
  /\ UNCHANGED <<disk, transcribe_rx, vad_rx, wav_files>>
  /\ VadFrame

\* push_segment, after the lock: save_index(snapshot), emit segment_created
VwSave ==
  /\ vw.pc = "save"
  /\ disk' = Unwrap(vw.snapshot)
  /\ vw' = [vw EXCEPT !.pc = "send", !.snapshot = None]
  /\ UNCHANGED <<segments, transcribe_rx, vad_rx, wav_files>>
  /\ VadFrame

\* transcribe_tx.send(TranscriptionTask {name, generation: load()})
VwSend ==
  /\ vw.pc = "send"
  /\ transcribe_rx' = Append(transcribe_rx,
                             TranscriptionTask(Unwrap(vw.info).name,
                                               transcription_generation))
  /\ vw' = VadWorkerIdle
  /\ UNCHANGED <<segments, disk, vad_rx, wav_files>>
  /\ VadFrame

-----------------------------------------------------------------------------
(* CaptureManager::start, stop, clear_task_queues, clear *)

CommandFrame ==
  UNCHANGED <<svcvars, translation_in_flight, transcribe_rx, qvars, config, stream_pos,
              window_in_flight, window_rx, ww, vad_rx, vw, next_name,
              tw, xw, tx, log, dequeued, late_push>>

\* start, up to drop_segment_translation.store(false); a start while the capture
\* thread is alive returns "capture already running" and changes nothing
CtlStart ==
  /\ ctl.pc = "idle"
  /\ budget.starts > 0
  /\ ~(handle = "running" /\ cap.pc # "exited")
  /\ budget' = [budget EXCEPT !.starts = @ - 1]
  /\ drop_segment_translation' = FALSE
  /\ ctl' = [pc |-> "start_load", op |-> "start"]
  /\ UNCHANGED <<segments, disk, translation_pending, translation_queue,
                 transcription_generation, translation_generation, queues,
                 handle, stop, cap, wav_files, obs, ctq_returned>>
  /\ CommandFrame

\* load_index_if_needed: an empty list is replaced by the list on disk
load_index_if_needed(list, on_disk) == IF list # <<>> THEN list ELSE on_disk

CtlStartLoad ==
  /\ ctl.pc = "start_load"
  /\ segments' = load_index_if_needed(segments, disk)
  /\ ctl' = [ctl EXCEPT !.pc = "start_spawn"]
  /\ UNCHANGED <<disk, translation_pending, translation_queue,
                 transcription_generation, translation_generation,
                 drop_segment_translation, queues, handle, stop, cap, wav_files,
                 obs, ctq_returned, budget>>
  /\ CommandFrame

\* ensure_queues, the new stop flag, thread::spawn(run_capture), the handle
CtlStartSpawn ==
  /\ ctl.pc = "start_spawn"
  /\ queues' = TRUE
  /\ stop' = FALSE
  /\ cap' = CaptureLocals("loop")
  /\ handle' = "running"
  /\ obs' = [obs EXCEPT !.session_from = stream_pos]
  /\ ctl' = CommandIdle
  /\ UNCHANGED <<segments, disk, translation_pending, translation_queue,
                 transcription_generation, translation_generation,
                 drop_segment_translation, wav_files, ctq_returned, budget>>
  /\ CommandFrame

\* stop (op = "stop") or clear (op = "clear", which begins with stop):
\* handle.take(), stop.store(true)
CtlStop(op) ==
  /\ ctl.pc = "idle"
  /\ \/ op = "stop" /\ budget.stops > 0
        /\ budget' = [budget EXCEPT !.stops = @ - 1]
     \/ op = "clear" /\ budget.clears > 0
        /\ budget' = [budget EXCEPT !.clears = @ - 1]
  /\ IF handle = "running"
     THEN /\ stop' = TRUE
          /\ ctl' = [pc |-> "join", op |-> op]
     ELSE /\ ctl' = [pc |-> "ctq_drop", op |-> op]
          /\ UNCHANGED stop
  /\ UNCHANGED <<segments, disk, translation_pending, translation_queue,
                 transcription_generation, translation_generation,
                 drop_segment_translation, queues, handle, cap, wav_files, obs,
                 ctq_returned>>
  /\ CommandFrame

\* handle.handle.join() returns once run_capture has returned
CtlJoin ==
  /\ ctl.pc = "join"
  /\ cap.pc = "exited"
  /\ handle' = "none"
  /\ cap' = CaptureLocals("none")
  /\ ctl' = [ctl EXCEPT !.pc = "ctq_drop"]
  /\ UNCHANGED <<segments, disk, translation_pending, translation_queue,
                 transcription_generation, translation_generation,
                 drop_segment_translation, queues, stop, wav_files, obs,
                 ctq_returned, budget>>
  /\ CommandFrame

\* clear_task_queues: drop_segment_translation.store(true)
CtqDrop ==
  /\ ctl.pc = "ctq_drop"
  /\ drop_segment_translation' = TRUE
  /\ ctl' = [ctl EXCEPT !.pc = "ctq_transcription"]
  /\ UNCHANGED <<segments, disk, translation_pending, translation_queue,
                 transcription_generation, translation_generation, queues,
                 handle, stop, cap, wav_files, obs, ctq_returned, budget>>
  /\ CommandFrame

\* clear_task_queues: transcription_generation.fetch_add(1)
CtqTranscriptionGeneration ==
  /\ ctl.pc = "ctq_transcription"
  /\ transcription_generation' = transcription_generation + 1
  /\ ctl' = [ctl EXCEPT !.pc = "ctq_translation"]
  /\ UNCHANGED <<segments, disk, translation_pending, translation_queue,
                 translation_generation, drop_segment_translation, queues,
                 handle, stop, cap, wav_files, obs, ctq_returned, budget>>
  /\ CommandFrame

\* clear_task_queues: translation_generation.fetch_add(1)
CtqTranslationGeneration ==
  /\ ctl.pc = "ctq_translation"
  /\ translation_generation' = translation_generation + 1
  /\ ctl' = [ctl EXCEPT !.pc = "ctq_pending"]
  /\ UNCHANGED <<segments, disk, translation_pending, translation_queue,
                 transcription_generation, drop_segment_translation, queues,
                 handle, stop, cap, wav_files, obs, ctq_returned, budget>>
  /\ CommandFrame

\* clear_task_queues: translation_pending.clear()
CtqPending ==
  /\ ctl.pc = "ctq_pending"
  /\ translation_pending' = << >>
  /\ ctl' = [ctl EXCEPT !.pc = "ctq_queue"]
  /\ UNCHANGED <<segments, disk, translation_queue, transcription_generation,
                 translation_generation, drop_segment_translation, queues,
                 handle, stop, cap, wav_files, obs, ctq_returned, budget>>
  /\ CommandFrame

\* clear_task_queues: translation_queue.clear() when the queues exist, the
\* segment_translation_canceled event, and the return
CtqQueue ==
  /\ ctl.pc = "ctq_queue"
  /\ translation_queue' = IF queues THEN TranslationQueue_clear(translation_queue)
                          ELSE translation_queue
  /\ ctq_returned' = translation_generation
  /\ ctl' = IF ctl.op = "clear" THEN [ctl EXCEPT !.pc = "clear_files"]
            ELSE CommandIdle
  /\ UNCHANGED <<segments, disk, translation_pending, transcription_generation,
                 translation_generation, drop_segment_translation, queues,
                 handle, stop, cap, wav_files, obs, budget>>
  /\ CommandFrame

\* clear: every file of the segments directory is removed, index.json included
ClearFiles ==
  /\ ctl.pc = "clear_files"
  /\ disk' = <<>>
  /\ wav_files' = {}
  /\ ctl' = [ctl EXCEPT !.pc = "clear_segments"]
  /\ UNCHANGED <<segments, translation_pending, translation_queue,
                 transcription_generation, translation_generation,
                 drop_segment_translation, queues, handle, stop, cap, obs,
                 ctq_returned, budget>>
  /\ CommandFrame

\* clear: segments.clear()
ClearSegments ==
  /\ ctl.pc = "clear_segments"
  /\ segments' = <<>>
  /\ ctl' = [ctl EXCEPT !.pc = "clear_pending"]
  /\ UNCHANGED <<disk, translation_pending, translation_queue,
                 transcription_generation, translation_generation,
                 drop_segment_translation, queues, handle, stop, cap, wav_files,
                 obs, ctq_returned, budget>>
  /\ CommandFrame

\* clear: translation_pending.clear()
ClearPending ==
  /\ ctl.pc = "clear_pending"
  /\ translation_pending' = << >>
  /\ ctl' = [ctl EXCEPT !.pc = "clear_queue"]
  /\ UNCHANGED <<segments, disk, translation_queue, transcription_generation,
                 translation_generation, drop_segment_translation, queues,
                 handle, stop, cap, wav_files, obs, ctq_returned, budget>>
  /\ CommandFrame

\* clear: translation_queue.clear() when the queues exist, then the
\* segment_list_cleared and live_translation_cleared events
ClearQueue ==
  /\ ctl.pc = "clear_queue"
  /\ translation_queue' = IF queues THEN TranslationQueue_clear(translation_queue)
                          ELSE translation_queue
  /\ ctl' = CommandIdle
  /\ UNCHANGED <<segments, disk, translation_pending, transcription_generation,
                 translation_generation, drop_segment_translation, queues,
                 handle, stop, cap, wav_files, obs, ctq_returned, budget>>
  /\ CommandFrame

-----------------------------------------------------------------------------
(* SpecCapture: run_capture frame by frame, with its workers *)

CaptureConfigs ==
  {AudioConfig(4, 2, max_segment_ms, min_transcribe_ms, pre_roll_ms, TRUE, vad) :
     max_segment_ms \in {0, 6}, min_transcribe_ms \in {0, 5},
     pre_roll_ms \in {0, 4}, vad \in BOOLEAN}

InitCapture ==
  /\ InitShared /\ InitQueueCalls /\ InitCaptureThreads /\ InitPipelineThreads
  /\ InitServices
  /\ config \in CaptureConfigs
  /\ budget = [starts |-> MaxStarts, stops |-> MaxStops, clears |-> 0,
               translates |-> 0]

NextCapture ==
  \/ CtlStart
  \/ CtlStartLoad
  \/ CtlStartSpawn
  \/ CtlStop("stop")
  \/ CtlJoin
  \/ CtqDrop
  \/ CtqTranscriptionGeneration
  \/ CtqTranslationGeneration
  \/ CtqPending
  \/ CtqQueue
  \/ \E n \in 0..MaxBatch, silent \in BOOLEAN : CapRead(n, silent)
  \/ CapObserveStop
  \/ CapPush
  \/ CapSave
  \/ CapSend
  \/ WwRecv
  \/ \E outcome \in {"path_error", "write_error", "asr_error", "emitted"} :
       WwFinish(outcome)
  \/ \E should_keep \in BOOLEAN : VwRecv(should_keep)
  \/ VwPush
  \/ VwSave
  \/ VwSend

SpecCapture == InitCapture /\ [][NextCapture]_vars

\* rolling-window tasks queued for or being processed by the worker
WindowTasks == Len(window_rx) + (IF ww.pc = "work" THEN 1 ELSE 0)

\* C7: at any time at most one rolling-window task is queued for or being
\* processed by the rolling-window worker, and a step taken while a task has
\* not completed puts no new task on the channel.
C7_RollingSingleInFlight ==
  [][/\ WindowTasks' <= 1
     /\ WindowTasks >= 1 => Len(window_rx') <= Len(window_rx)]_vars

\* a rolling tick fired while the previous task was still with the worker
C7_Witness == obs.tick = "dropped" /\ ww.pc = "work" /\ window_rx = <<>>

\* C8: while a clip opened with pre_roll_ms > 0 is being written, its samples
\* are the frames of the stream from the first of the (at most pre_roll_ms of)
\* audio that preceded the opening batch onwards, each frame once and in order:
\* the audio before the batch, then the batch exactly once.
C8_PreRollThenBatchOnce ==
  (IsSome(cap.current_writer) /\ config.pre_roll_ms > 0) =>
    LET samples == Unwrap(cap.current_writer).samples
        first == Max2(obs.session_from,
                      obs.open_pos - Frames(config.pre_roll_ms)) + 1
    IN \A i \in 1..Len(samples) : samples[i] = first + i - 1

\* C9 as stated: with max_segment_ms > 0 no finalized segment is longer than
\* max_segment_ms plus the duration of one read batch, the longest batch allowed
C9_MaxPlusOneBatch ==
  (IsSome(obs.fin) /\ config.max_segment_ms > 0) =>
    Unwrap(obs.fin).duration_ms <= config.max_segment_ms + DurationMs(MaxBatch)

\* C9: with max_segment_ms > 0 no finalized segment is longer than the larger of
\* max_segment_ms and pre_roll_ms plus the read batch that opened it, plus the
\* duration of the last batch read into it.
C9_MaxOrOpeningPlusOneBatch ==
  (IsSome(obs.fin) /\ config.max_segment_ms > 0) =>
    LET fin == Unwrap(obs.fin)
    IN fin.duration_ms <=
         Max2(config.max_segment_ms,
              config.pre_roll_ms + DurationMs(fin.first_batch))
           + DurationMs(fin.last_batch)

\* a segment cut by max_segment_ms that came out longer than max_segment_ms
C9_Witness ==
  /\ IsSome(obs.fin)
  /\ config.max_segment_ms > 0
  /\ Unwrap(obs.fin).by = "max"
  /\ Unwrap(obs.fin).duration_ms > config.max_segment_ms

\* C10: every segment in the SegmentIndex and every segment sent to the
\* transcription queue has duration_ms >= min_transcribe_ms, and a finalized
\* clip shorter than that has no file, no index entry and no task.
C10_MinTranscribeEnforced ==
  /\ \A i \in 1..Len(segments) :
       segments[i].duration_ms >= config.min_transcribe_ms
  /\ \A i \in 1..Len(transcribe_rx) :
       /\ Found(segments, transcribe_rx[i].name)
       /\ segments[Position(segments, transcribe_rx[i].name)].duration_ms
            >= config.min_transcribe_ms
  /\ (IsSome(obs.fin)
        /\ Unwrap(obs.fin).duration_ms < config.min_transcribe_ms) =>
       LET name == Unwrap(obs.fin).name
       IN /\ name \notin wav_files
          /\ ~Found(segments, name)
          /\ \A i \in 1..Len(transcribe_rx) : transcribe_rx[i].name # name
          /\ \A i \in 1..Len(vad_rx) : vad_rx[i].info.name # name

\* the clip finalized on stop was too short and is gone, after an earlier
\* segment was indexed and sent to the transcription queue
C10_Witness ==
  /\ IsSome(obs.fin)
  /\ Unwrap(obs.fin).by = "stop"
  /\ Unwrap(obs.fin).duration_ms < config.min_transcribe_ms
  /\ cap.pc = "exited"
  /\ segments # <<>>
  /\ transcribe_rx # <<>>

\* transcript_noise_max_meaningful_chars.unwrap_or(10).max(1)
NoiseMaxMeaningful == 10
\* the literal of `meaningful_chars >= 6`
RepeatMinChars == 6
\* transcript_repeat_char_ratio.unwrap_or(0.72), in percent
RepeatRatioPercent == 72

\* the place of a clip in the order in which the capture loop finalizes: the
\* loop has one writer at a time and names the clips in the order in which it
\* opens them
FinalizeOrder(name) == name

\* C25: the segments are in the SegmentIndex in the order in which the
\* capture loop finalized them, whether they were appended by the capture
\* thread itself or by the VAD worker.
C25_AppendOrderIsFinalizeOrder ==
  \A i, j \in 1..Len(segments) :
     i < j => FinalizeOrder(segments[i].name) < FinalizeOrder(segments[j].name)

\* two segments that went through the VAD worker are in the index
C25_Witness ==
  /\ config.use_whisper_vad
  /\ Len(segments) >= 2

-----------------------------------------------------------------------------
(* SpecLoop: one capture session that is not stopped, with a silence        *)
(* threshold of two frames, and the rolling-window worker                    *)

LoopConfigs ==
  {AudioConfig(4, 4, max_segment_ms, 0, 0, TRUE, FALSE) : max_segment_ms \in {0, 8}}

InitLoop ==
  /\ InitShared /\ InitQueueCalls /\ InitCaptureThreads /\ InitPipelineThreads
  /\ InitServices
  /\ config \in LoopConfigs
  /\ budget = [starts |-> MaxStarts, stops |-> 0, clears |-> 0, translates |-> 0]

NextLoop ==
  \/ CtlStart
  \/ CtlStartLoad
  \/ CtlStartSpawn
  \/ \E n \in 0..MaxBatch, silent \in BOOLEAN : CapRead(n, silent)
  \/ CapPush
  \/ CapSave
  \/ CapSend
  \/ WwRecv
  \/ \E outcome \in {"path_error", "write_error", "asr_error", "emitted"} :
       WwFinish(outcome)

SpecLoop == InitLoop /\ [][NextLoop]_vars

\* the segment that is open is due after a batch of n frames, silent or not
DueAfter(n, silent) ==
  LET segment_frames == cap.segment_frames + n
      silence_frames == IF silent THEN cap.silence_frames + n ELSE 0
      min_segment_frames == Frames(config.min_segment_ms)
      min_silence_frames == Frames(config.min_silence_ms)
      max_segment_frames == Frames(config.max_segment_ms)
  IN \/ segment_frames >= min_segment_frames /\ silence_frames >= min_silence_frames
     \/ max_segment_frames > 0 /\ segment_frames >= max_segment_frames

\* C28: while a segment is open, after each batch is written the capture loop
\* finalizes the segment if and only if (segment_frames >= min_segment_frames
\* and silence_frames >= min_silence_frames) or (max_segment_frames > 0 and
\* segment_frames >= max_segment_frames); silence_frames is the length of the
\* trailing run of silent batches: a silent batch adds its frames, a voiced
\* batch resets it to 0.
C28_FinalizeIffDue ==
  [][\A n \in 1..MaxBatch, silent \in BOOLEAN :
       (IsSome(cap.current_writer) /\ CapRead(n, silent)) =>
         /\ DueAfter(n, silent) <=>
              /\ cap'.current_writer = None
              /\ IsSome(obs'.fin)
              /\ Unwrap(obs'.fin).name = Unwrap(cap.current_writer).name
         /\ ~DueAfter(n, silent) =>
              /\ IsSome(cap'.current_writer)
              /\ cap'.segment_frames = cap.segment_frames + n
              /\ cap'.silence_frames =
                   IF silent THEN cap.silence_frames + n ELSE 0]_vars

\* a segment that was opened by a batch of one frame has been finalized by
\* its second silent batch of one frame, three frames after it had reached
\* min_segment_frames
C28_Witness ==
  /\ IsSome(obs.fin)
  /\ Unwrap(obs.fin).by = "silence"
  /\ Unwrap(obs.fin).first_batch = 1
  /\ Unwrap(obs.fin).last_batch = 1
  /\ Unwrap(obs.fin).frames = Frames(config.min_segment_ms) + 3

\* the rolling-window worker is a thread of its own that blocks only in
\* rx.recv(): it takes a task that is on its channel, and each call it makes
\* for a task returns
SpecLoopFair ==
  /\ SpecLoop
  /\ WF_vars(WwRecv)
  /\ WF_vars(\E outcome \in {"path_error", "write_error", "asr_error", "emitted"} :
               WwFinish(outcome))

ExitedAfterStopFinalize ==
  /\ cap.pc = "exited"
  /\ IsSome(obs.fin)
  /\ Unwrap(obs.fin).by = "stop"

\* what finalize_segment has done with the clip `fin` by the time it returns
FinalizedThrough(fin) ==
  CASE fin.route = "short" ->
         /\ fin.name \notin wav_files
         /\ ~Found(segments, fin.name)
         /\ \A i \in 1..Len(transcribe_rx) : transcribe_rx[i].name # fin.name
    [] fin.route = "vad" ->
         \/ \E i \in 1..Len(vad_rx) : vad_rx[i].info.name = fin.name
         \/ IsSome(vw.info) /\ Unwrap(vw.info).name = fin.name
         \/ Found(segments, fin.name)
         \/ fin.name \notin wav_files
    [] OTHER ->
         /\ Found(segments, fin.name)
         /\ \E i \in 1..Len(transcribe_rx) : transcribe_rx[i].name = fin.name

\* C30: when the capture loop reads the stop flag while a segment is open,
\* that segment is finalized before the thread ends, through the path of a
\* silence-bounded segment: the minimum-duration filter, the VAD hand-off when
\* VAD is on, otherwise the SegmentIndex append and the transcription enqueue.
C30_OpenSegmentFinalizedOnStop ==
  /\ [][(/\ cap.pc = "loop"
         /\ stop
         /\ IsSome(cap.current_writer)
         /\ cap' # cap) =>
           /\ cap'.current_writer = None
           /\ IsSome(obs'.fin)
           /\ Unwrap(obs'.fin).name = Unwrap(cap.current_writer).name
           /\ Unwrap(obs'.fin).frames = Len(Unwrap(cap.current_writer).samples)
           /\ Unwrap(obs'.fin).by = "stop"]_vars
  /\ [](cap.pc = "exited" => cap.current_writer = None)
  /\ [](ExitedAfterStopFinalize =>
          /\ Unwrap(obs.fin).route =
               finalize_segment(Unwrap(obs.fin).duration_ms, config)
          /\ FinalizedThrough(Unwrap(obs.fin)))

\* the segment that was open at the stop is in the SegmentIndex and on the
\* transcription channel, and the capture thread has returned
C30_Witness ==
  /\ ExitedAfterStopFinalize
  /\ Unwrap(obs.fin).route = "push"
  /\ Found(segments, Unwrap(obs.fin).name)

-----------------------------------------------------------------------------
(* sanitize_transcript_text and its filters. A text is a sequence of           *)
(* characters; a character outside ASCII is written by its code point.         *)

Whitespace == {" ", "\t", "\n"}
AsciiLower == {"a", "b", "c", "e", "g", "h", "i", "l", "m", "n", "o", "p", "s",
               "t", "u", "w"}
AsciiUpper == {"A", "H", "M", "W"}
AsciiDigit == {"0", "1"}
AsciiPunct == {"(", ")", "[", "]", ".", ",", "!", "?", ":", "*", "-"}

\* char::to_lowercase on the characters of the model
LowerChar(ch) ==
  CASE ch = "A" -> "a" [] ch = "H" -> "h" [] ch = "M" -> "m" [] ch = "W" -> "w"
    [] OTHER -> ch

ToLowercase(text) == [i \in 1..Len(text) |-> LowerChar(text[i])]

RECURSIVE TrimStart(_)
TrimStart(text) ==
  IF text # <<>> /\ Head(text) \in Whitespace THEN TrimStart(Tail(text)) ELSE text

RECURSIVE TrimEnd(_)
TrimEnd(text) ==
  IF text # <<>> /\ text[Len(text)] \in Whitespace
  THEN TrimEnd(SubSeq(text, 1, Len(text) - 1)) ELSE text

\* str::trim
Trim(text) == TrimEnd(TrimStart(text))

RECURSIVE TrimStartMatches(_, _)
TrimStartMatches(text, set) ==
  IF text # <<>> /\ Head(text) \in set THEN TrimStartMatches(Tail(text), set)
  ELSE text

RECURSIVE TrimEndMatches(_, _)
TrimEndMatches(text, set) ==
  IF text # <<>> /\ text[Len(text)] \in set
  THEN TrimEndMatches(SubSeq(text, 1, Len(text) - 1), set) ELSE text

\* str::trim_matches
TrimMatches(text, set) == TrimEndMatches(TrimStartMatches(text, set), set)

\* chars().filter(|c| c is not in `set`).collect()
RECURSIVE Without(_, _)
Without(text, set) ==
  IF text = <<>> THEN <<>>
  ELSE IF Head(text) \in set THEN Without(Tail(text), set)
  ELSE <<Head(text)>> \o Without(Tail(text), set)

\* str::contains
Contains(text, pattern) ==
  \E i \in 1..(Len(text) - Len(pattern) + 1) :
     SubSeq(text, i, i + Len(pattern) - 1) = pattern

KnownHallucinations ==
  { <<"U+5B57", "U+5E55", "U+88FD", "U+4F5C", ":", "U+8C9D", "U+723E">>,
    <<"U+5B57", "U+5E55", "U+88FD", "U+4F5C", "U+FF1A", "U+8C9D", "U+723E">>,
    <<"U+5B57", "U+5E55", "U+5236", "U+4F5C", ":", "U+8D1D", "U+5C14">>,
    <<"U+5B57", "U+5E55", "U+5236", "U+4F5C", "U+FF1A", "U+8D1D", "U+5C14">> }

is_known_whisper_hallucination(text) ==
  LET compact == Without(TrimMatches(Trim(text), {"(", ")", "[", "]"}), Whitespace)
  IN compact # <<>> /\ ToLowercase(compact) \in KnownHallucinations

\* the characters of the model inside the four ranges of is_meaningful_char
CjkChars ==
  {"U+5B57", "U+5E55", "U+88FD", "U+4F5C", "U+8C9D", "U+723E", "U+5236", "U+8D1D",
   "U+5C14", "U+97F3", "U+697D", "U+4E50", "U+6A02", "U+80CC", "U+666F", "U+73AF",
   "U+5883", "U+638C", "U+58F0", "U+7B11", "U+3044", "U+54C8", "U+5475", "U+52B9",
   "U+679C", "U+62CD", "U+624B", "U+4F34", "U+594F", "U+914D", "U+6548"}

is_meaningful_char(ch) ==
  ch \in AsciiLower \cup AsciiUpper \cup AsciiDigit \cup CjkChars

MeaningfulChars(text) ==
  Without(text, {text[i] : i \in 1..Len(text)}
                  \ {ch \in {text[i] : i \in 1..Len(text)} : is_meaningful_char(ch)})

\* most_frequent_char_ratio(text) >= percent / 100
MostFrequentCharRatioAtLeast(text, percent) ==
  LET kept == MeaningfulChars(text)
      total == Len(kept)
      count(ch) == Cardinality({i \in 1..total : kept[i] = ch})
      max_count == IF total = 0 THEN 0
                   ELSE CHOOSE n \in {count(kept[i]) : i \in 1..total} :
                          \A i \in 1..total : count(kept[i]) <= n
  IN IF total = 0 THEN percent <= 0
     ELSE max_count * 100 >= percent * total

NOISE_KEYWORDS ==
  { <<"m", "u", "s", "i", "c">>, <<"b", "g", "m">>,
    <<"a", "p", "p", "l", "a", "u", "s", "e">>,
    <<"l", "a", "u", "g", "h", "t", "e", "r">>, <<"l", "a", "u", "g", "h">>,
    <<"l", "o", "l">>, <<"l", "m", "a", "o">>, <<"w", "w", "w">>,
    <<"U+5B57", "U+5E55">>, <<"U+97F3", "U+697D">>, <<"U+97F3", "U+4E50">>,
    <<"U+97F3", "U+6A02">>, <<"U+80CC", "U+666F", "U+97F3">>,
    <<"U+73AF", "U+5883", "U+97F3">>, <<"U+638C", "U+58F0">>,
    <<"U+7B11", "U+58F0">>, <<"U+7B11", "U+3044">>, <<"U+7B11">>,
    <<"U+54C8", "U+54C8">>, <<"U+5475", "U+5475">>,
    <<"U+52B9", "U+679C", "U+97F3">>, <<"U+62CD", "U+624B">>, <<"U+266A">>,
    <<"U+266B">>, <<"U+4F34", "U+594F">>, <<"U+914D", "U+4E50">>,
    <<"U+914D", "U+6A02">> }

count_noise_keyword_hits(text) ==
  Cardinality({keyword \in NOISE_KEYWORDS : Contains(ToLowercase(text), keyword)})

NoisePunct ==
  AsciiPunct \cup {"U+FF08", "U+FF09", "U+3010", "U+3011", "U+300C", "U+300D",
                   "U+FF1A", "U+3002", "U+FF01", "U+FF1F", "U+3001", "U+FF0C"}

is_noise_punct(ch) == ch \in NoisePunct

NOISE_LABELS ==
  { <<"m", "u", "s", "i", "c">>, <<"b", "g", "m">>,
    <<"a", "p", "p", "l", "a", "u", "s", "e">>, <<"l", "a", "u", "g", "h">>,
    <<"l", "a", "u", "g", "h", "t", "e", "r">>, <<"l", "o", "l">>,
    <<"l", "m", "a", "o">>, <<"w", "w", "w">>, <<"w", "w">>, <<"w">>,
    <<"n", "o", "i", "s", "e">>, <<"s", "t", "a", "t", "i", "c">>,
    <<"U+97F3", "U+697D">>, <<"U+97F3", "U+4E50">>, <<"U+97F3", "U+6A02">>,
    <<"U+80CC", "U+666F", "U+97F3">>, <<"U+73AF", "U+5883", "U+97F3">>,
    <<"U+52B9", "U+679C", "U+97F3">>, <<"U+97F3", "U+6548">>, <<"U+7B11">>,
    <<"U+7B11", "U+3044">>, <<"U+7B11", "U+58F0">>, <<"U+54C8", "U+54C8">>,
    <<"U+5475", "U+5475">>, <<"U+4F34", "U+594F">>, <<"U+914D", "U+4E50">>,
    <<"U+914D", "U+6A02">>, <<"U+638C", "U+58F0">> }

is_noise_label_only(text) ==
  LET normalized == ToLowercase(Without(Trim(text), Whitespace \cup NoisePunct))
  IN normalized # <<>> /\ normalized \in NOISE_LABELS

\* the defaults of AsrConfig: the post filter is on, at most 10 meaningful
\* characters next to a noise keyword, repeat ratio 0.72
should_drop_non_speech_transcript(text) ==
  LET meaningful_chars == Len(MeaningfulChars(text))
  IN \/ is_noise_label_only(text)
     \/ count_noise_keyword_hits(text) > 0 /\ meaningful_chars <= NoiseMaxMeaningful
     \/ meaningful_chars >= RepeatMinChars
          /\ MostFrequentCharRatioAtLeast(text, RepeatRatioPercent)

sanitize_transcript_text(raw) ==
  LET trimmed == Trim(raw)
  IN IF trimmed = <<>> THEN <<>>
     ELSE IF is_known_whisper_hallucination(trimmed) THEN <<>>
     ELSE IF should_drop_non_speech_transcript(trimmed) THEN <<>>
     ELSE trimmed

-----------------------------------------------------------------------------
(* enqueue_translation, as its callers step through it *)

\* queue.push(request), with the bookkeeping of which pushes came late: the
\* request is inserted below an order the worker has already popped in the
\* request's generation
PushRequest(request) ==
  /\ translation_queue' = TranslationQueue_push(translation_queue, request)
  /\ late_push' =
       IF /\ request.name \notin translation_queue.pending
          /\ \E d \in dequeued : d[1] = request.generation /\ request.order < d[2]
       THEN late_push \cup {request.generation}
       ELSE late_push

-----------------------------------------------------------------------------
(* run_transcription_worker *)

\* what transcribe_file can return for the segments of the model
AsrResults ==
  { [ok |-> TRUE, text |-> <<"H", "i", " ">>],
    [ok |-> TRUE, text |-> <<" ", "[", "M", "u", "s", "i", "c", "]">>],
    [ok |-> FALSE, text |-> <<>>] }

TranscriptionFrame ==
  UNCHANGED <<svcvars, transcription_generation, translation_in_flight, queues, handle,
              stop, qvars, capvars, xw, ctl, tx, log, ctq_returned, dequeued,
              budget>>

\* rx.recv() and the generation test of the task
TwRecv ==
  /\ queues
  /\ tw.pc = "recv"
  /\ transcribe_rx # <<>>
  /\ transcribe_rx' = Tail(transcribe_rx)
  /\ tw' = IF Head(transcribe_rx).generation # transcription_generation
           THEN TranscriptionWorkerIdle
           ELSE [TranscriptionWorkerIdle EXCEPT !.pc = "asr",
                                                !.name = Head(transcribe_rx).name]
  /\ UNCHANGED <<segments, disk, translation_pending, translation_queue,
                 translation_generation, drop_segment_translation, late_push>>
  /\ TranscriptionFrame

\* transcribe_file returns, sanitize_transcript_text, and apply_transcript's
\* lock section
TwApply(asr) ==
  /\ tw.pc = "asr"
  /\ LET text == IF asr.ok THEN asr.text ELSE <<>>
         transcript == sanitize_transcript_text(text)
     IN IF Found(segments, tw.name)
        THEN /\ segments' = SetTranscript(segments, tw.name, transcript)
             /\ tw' = [tw EXCEPT !.pc = "save", !.asr = Some(asr),
                                 !.snapshot = Some(segments')]
        ELSE /\ tw' = [tw EXCEPT !.pc = "drop_check"]
             /\ UNCHANGED segments
  /\ UNCHANGED <<disk, translation_pending, translation_queue,
                 translation_generation, drop_segment_translation, transcribe_rx,
                 late_push>>
  /\ TranscriptionFrame

\* apply_transcript after the lock: save_index(snapshot), emit segment_transcribed
TwSave ==
  /\ tw.pc = "save"
  /\ disk' = Unwrap(tw.snapshot)
  /\ tw' = [tw EXCEPT !.pc = "drop_check", !.snapshot = None]
  /\ UNCHANGED <<segments, translation_pending, translation_queue,
                 translation_generation, drop_segment_translation, transcribe_rx,
                 late_push>>
  /\ TranscriptionFrame

\* if drop_segment_translation.load() { continue }
TwDropCheck ==
  /\ tw.pc = "drop_check"
  /\ tw' = IF drop_segment_translation THEN TranscriptionWorkerIdle
           ELSE [tw EXCEPT !.pc = "take_pending"]
  /\ UNCHANGED <<segments, disk, translation_pending, translation_queue,
                 translation_generation, drop_segment_translation, transcribe_rx,
                 late_push>>
  /\ TranscriptionFrame

\* take_pending_translation: pending.remove(name)
TwTakePending ==
  /\ tw.pc = "take_pending"
  /\ IF tw.name \in DOMAIN translation_pending
     THEN /\ translation_pending' =
               [n \in DOMAIN translation_pending \ {tw.name} |-> translation_pending[n]]
          /\ tw' = [tw EXCEPT !.pc = "order",
                              !.provider = translation_pending[tw.name]]
     ELSE /\ tw' = TranscriptionWorkerIdle
          /\ UNCHANGED translation_pending
  /\ UNCHANGED <<segments, disk, translation_queue, translation_generation,
                 drop_segment_translation, transcribe_rx, late_push>>
  /\ TranscriptionFrame

\* enqueue_translation: segment_order
TwOrder ==
  /\ tw.pc = "order"
  /\ tw' = [tw EXCEPT !.pc = "generation", !.order = segment_order(segments, tw.name)]
  /\ UNCHANGED <<segments, disk, translation_pending, translation_queue,
                 translation_generation, drop_segment_translation, transcribe_rx,
                 late_push>>
  /\ TranscriptionFrame

\* enqueue_translation: translation_generation.load()
TwGeneration ==
  /\ tw.pc = "generation"
  /\ tw' = [tw EXCEPT !.pc = "push", !.generation = translation_generation]
  /\ UNCHANGED <<segments, disk, translation_pending, translation_queue,
                 translation_generation, drop_segment_translation, transcribe_rx,
                 late_push>>
  /\ TranscriptionFrame

\* enqueue_translation: queue.push
TwPush ==
  /\ tw.pc = "push"
  /\ PushRequest(TranslationRequest(tw.name, tw.provider, tw.order, tw.generation))
  /\ tw' = TranscriptionWorkerIdle
  /\ UNCHANGED <<segments, disk, translation_pending, translation_generation,
                 drop_segment_translation, transcribe_rx>>
  /\ TranscriptionFrame

-----------------------------------------------------------------------------
(* CaptureManager::translate_segment *)

TranslateFrame ==
  UNCHANGED <<svcvars, segments, disk, transcription_generation, translation_generation,
              drop_segment_translation, translation_in_flight, transcribe_rx,
              handle, stop, qvars, capvars, tw, xw, ctl, log, ctq_returned,
              dequeued>>

\* the call, up to ensure_queues; provider is the argument after
\* provider.filter(|value| !value.trim().is_empty())
TxCall(name, provider) ==
  /\ tx.pc = "idle"
  /\ budget.translates > 0
  /\ budget' = [budget EXCEPT !.translates = @ - 1]
  /\ queues' = TRUE
  /\ tx' = [TranslateSegmentIdle EXCEPT !.pc = "drop_check", !.name = name,
                                        !.provider = provider]
  /\ UNCHANGED <<translation_pending, translation_queue, late_push>>
  /\ TranslateFrame

\* if drop_segment_translation.load() { return Ok(()) }
TxDropCheck ==
  /\ tx.pc = "drop_check"
  /\ tx' = IF drop_segment_translation THEN TranslateSegmentIdle
           ELSE [tx EXCEPT !.pc = "ready"]
  /\ UNCHANGED <<translation_pending, translation_queue, queues, late_push, budget>>
  /\ TranslateFrame

\* transcript_ready: the segment is found and its transcript is Some
TxReady ==
  /\ tx.pc = "ready"
  /\ tx' = [tx EXCEPT !.pc = IF IsSome(TranscriptOf(segments, tx.name))
                             THEN "order" ELSE "pending"]
  /\ UNCHANGED <<translation_pending, translation_queue, queues, late_push, budget>>
  /\ TranslateFrame

\* translation_pending.entry(name).or_insert(provider)
TxPending ==
  /\ tx.pc = "pending"
  /\ translation_pending' =
       IF tx.name \in DOMAIN translation_pending THEN translation_pending
       ELSE [n \in DOMAIN translation_pending \cup {tx.name} |->
               IF n = tx.name THEN tx.provider ELSE translation_pending[n]]
  /\ tx' = TranslateSegmentIdle
  /\ UNCHANGED <<translation_queue, queues, late_push, budget>>
  /\ TranslateFrame

\* enqueue_translation: segment_order
TxOrder ==
  /\ tx.pc = "order"
  /\ tx' = [tx EXCEPT !.pc = "generation", !.order = segment_order(segments, tx.name)]
  /\ UNCHANGED <<translation_pending, translation_queue, queues, late_push, budget>>
  /\ TranslateFrame

\* enqueue_translation: translation_generation.load()
TxGeneration ==
  /\ tx.pc = "generation"
  /\ tx' = [tx EXCEPT !.pc = "push", !.generation = translation_generation]
  /\ UNCHANGED <<translation_pending, translation_queue, queues, late_push, budget>>
  /\ TranslateFrame

\* enqueue_translation: queue.push
TxPush ==
  /\ tx.pc = "push"
  /\ PushRequest(TranslationRequest(tx.name, tx.provider, tx.order, tx.generation))
  /\ tx' = TranslateSegmentIdle
  /\ UNCHANGED <<translation_pending, queues, budget>>
  /\ TranslateFrame

-----------------------------------------------------------------------------
(* run_translation_worker, translate_segment_provider_group *)

\* load_segment_translation_batch_config().size
BatchSize == 1

BatchTranslationItem(id, text) == [id |-> id, text |-> text]
CleanedBatchItem(name, cleaned_text) == [name |-> name, cleaned_text |-> cleaned_text]

\* history.previous_batch[prev_start..]
LastOf(list, n) ==
  IF Len(list) > n THEN SubSeq(list, Len(list) - n + 1, Len(list)) ELSE list

\* all_items: the context items, then the current items whose id is not yet there
RECURSIVE AllItems(_, _)
AllItems(context_items, current) ==
  IF current = <<>> THEN context_items
  ELSE IF \E i \in 1..Len(context_items) : context_items[i].id = Head(current).id
       THEN AllItems(context_items, Tail(current))
       ELSE AllItems(Append(context_items, Head(current)), Tail(current))

\* a translation the provider returned: collect_batch_item keeps no empty one
TranslatedText == <<"t">>

TranslationFrame ==
  UNCHANGED <<svcvars, translation_pending, transcription_generation,
              translation_generation, drop_segment_translation, transcribe_rx,
              queues, handle, stop, qvars, capvars, tw, ctl, tx, ctq_returned,
              late_push, budget>>

\* a variant of the worker's loop that takes every request it pops
XwPopUntested ==
  /\ queues
  /\ xw.pc = "pop"
  /\ translation_queue.items # <<>>
  /\ LET first == TranslationQueue_front(translation_queue)
     IN /\ translation_queue' = TranslationQueue_pop(translation_queue)
        /\ dequeued' = dequeued \cup {<<first.generation, first.order>>}
        /\ xw' = [xw EXCEPT !.pc = "in_flight", !.first = Some(first)]
  /\ UNCHANGED <<segments, disk, translation_in_flight, log>>
  /\ TranslationFrame

\* queue.pop() and the generation test of the request
XwPop ==
  /\ queues
  /\ xw.pc = "pop"
  /\ translation_queue.items # <<>>
  /\ LET first == TranslationQueue_front(translation_queue)
     IN /\ translation_queue' = TranslationQueue_pop(translation_queue)
        /\ dequeued' = dequeued \cup {<<first.generation, first.order>>}
        /\ xw' = IF first.generation # translation_generation THEN xw
                 ELSE [xw EXCEPT !.pc = "collect", !.first = Some(first)]
  /\ UNCHANGED <<segments, disk, translation_in_flight, log>>
  /\ TranslationFrame

\* collect_translation_batch with size 1: the generation test, vec![first]
XwCollect ==
  /\ xw.pc = "collect"
  /\ xw' = IF Unwrap(xw.first).generation # translation_generation
           THEN [xw EXCEPT !.pc = "pop", !.first = None]
           ELSE [xw EXCEPT !.pc = "in_flight"]
  /\ UNCHANGED <<segments, disk, translation_queue, translation_in_flight, log,
                 dequeued>>
  /\ TranslationFrame

\* in_flight.store(true)
XwInFlight ==
  /\ xw.pc = "in_flight"
  /\ translation_in_flight' = TRUE
  /\ xw' = [xw EXCEPT !.pc = "begin"]
  /\ UNCHANGED <<segments, disk, translation_queue, log, dequeued>>
  /\ TranslationFrame

\* a variant of the history reset that looks at the generation only
XwBeginGenerationOnly ==
  /\ xw.pc = "begin"
  /\ LET active_generation == translation_generation
         provider == Unwrap(xw.first).provider
         history == IF xw.history.generation # active_generation
                    THEN [generation |-> active_generation, provider |-> provider,
                          previous_batch |-> <<>>]
                    ELSE xw.history
     IN xw' = [xw EXCEPT !.history = history,
                         !.active_generation = active_generation,
                         !.pc = IF Unwrap(xw.first).generation # active_generation
                                THEN "done" ELSE "read"]
  /\ UNCHANGED <<segments, disk, translation_queue, translation_in_flight, log,
                 dequeued>>
  /\ TranslationFrame

\* translate_segment_provider_group: active_generation, the history reset
XwBegin ==
  /\ xw.pc = "begin"
  /\ LET active_generation == translation_generation
         provider == Unwrap(xw.first).provider
         history == IF xw.history.generation # active_generation
                       \/ xw.history.provider # provider
                    THEN [generation |-> active_generation, provider |-> provider,
                          previous_batch |-> <<>>]
                    ELSE xw.history
     IN xw' = [xw EXCEPT !.history = history,
                         !.active_generation = active_generation,
                         !.pc = IF Unwrap(xw.first).generation # active_generation
                                THEN "done" ELSE "read"]
  /\ UNCHANGED <<segments, disk, translation_queue, translation_in_flight, log,
                 dequeued>>
  /\ TranslationFrame

\* the transcript of the request's segment, current_batch_items, context_items,
\* all_names
XwRead ==
  /\ xw.pc = "read"
  /\ LET request == Unwrap(xw.first)
         transcript == TranscriptOf(segments, request.name)
         items == <<BatchTranslationItem(request.name, Unwrap(transcript))>>
         previous == LastOf(xw.history.previous_batch, Max2(BatchSize, 1))
         context_items == [i \in 1..Len(previous) |->
                             BatchTranslationItem(previous[i].name,
                                                  previous[i].cleaned_text)]
         all_items == AllItems(context_items, items)
     IN xw' = IF ~IsSome(transcript) THEN [xw EXCEPT !.pc = "done"]
              ELSE [xw EXCEPT !.pc = "call", !.items = items,
                              !.context = context_items,
                              !.all_names = [i \in 1..Len(all_items) |-> all_items[i].id]]
  /\ UNCHANGED <<segments, disk, translation_queue, translation_in_flight, log,
                 dequeued>>
  /\ TranslationFrame

\* translate_text_batch_with_options returns Err, or Ok with translations for
\* the ids in `translated`; then the generation test of either match arm
XwCall(ok, translated) ==
  /\ xw.pc = "call"
  /\ translated \subseteq {xw.all_names[i] : i \in 1..Len(xw.all_names)}
  /\ ~ok => translated = {}
  /\ xw' = IF translation_generation # xw.active_generation
           THEN [xw EXCEPT !.pc = "done"]
           ELSE [xw EXCEPT !.pc = "apply", !.idx = 1,
                           !.result = Some([ok |-> ok, translated |-> translated])]
  /\ UNCHANGED <<segments, disk, translation_queue, translation_in_flight, log,
                 dequeued>>
  /\ TranslationFrame

\* a variant of the match arms that leaves the history alone when the call
\* failed
HistoryAfterKept(history, active_generation, provider, result, items) ==
  [generation |-> active_generation, provider |-> provider,
   previous_batch |->
     IF result.ok
     THEN LastOf([i \in 1..Len(items) |->
                    CleanedBatchItem(items[i].id, items[i].text)],
                 Max2(BatchSize, 1))
     ELSE history.previous_batch]

\* the history the match arm leaves behind
HistoryAfter(history, active_generation, provider, result, items) ==
  [generation |-> active_generation, provider |-> provider,
   previous_batch |->
     IF result.ok
     THEN LastOf([i \in 1..Len(items) |->
                    CleanedBatchItem(items[i].id, items[i].text)],
                 Max2(BatchSize, 1))
     ELSE <<>>]

\* the state of the worker after the call for all_names[idx] has returned
XwNext ==
  IF xw.idx < Len(xw.all_names)
  THEN [xw EXCEPT !.pc = "apply", !.idx = @ + 1, !.snapshot = None]
  ELSE [xw EXCEPT !.pc = "done", !.snapshot = None,
                  !.history = HistoryAfter(xw.history, xw.active_generation,
                                           Unwrap(xw.first).provider,
                                           Unwrap(xw.result), xw.items)]

\* apply_translation for all_names[idx]: the lock section
XwApply ==
  /\ xw.pc = "apply"
  /\ LET name == xw.all_names[xw.idx]
         translation == IF name \in Unwrap(xw.result).translated
                        THEN TranslatedText ELSE <<>>
     IN IF Found(segments, name)
        THEN /\ segments' = SetTranslation(segments, name, translation)
             /\ xw' = [xw EXCEPT !.pc = "save", !.snapshot = Some(segments'),
                                 !.at_write = ctq_returned]
        ELSE /\ xw' = XwNext
             /\ UNCHANGED segments
  /\ UNCHANGED <<disk, translation_queue, translation_in_flight, log, dequeued>>
  /\ TranslationFrame

\* apply_translation after the lock: save_index(snapshot), emit
\* segment_translated
XwSave ==
  /\ xw.pc = "save"
  /\ disk' = Unwrap(xw.snapshot)
  /\ LET name == xw.all_names[xw.idx]
         snapshot == Unwrap(xw.snapshot)
     IN log' = Append(log, [name |-> name,
                            order |-> Position(snapshot, name) - 1,
                            generation |-> xw.active_generation,
                            provider |-> Unwrap(xw.first).provider,
                            cleared_at_write |-> xw.at_write,
                            cleared_at_emit |-> ctq_returned])
  /\ xw' = XwNext
  /\ UNCHANGED <<segments, translation_queue, translation_in_flight, dequeued>>
  /\ TranslationFrame

\* in_flight.store(false)
XwDone ==
  /\ xw.pc = "done"
  /\ translation_in_flight' = FALSE
  /\ xw' = [xw EXCEPT !.pc = "pop", !.first = None, !.items = <<>>,
                      !.context = <<>>, !.all_names = <<>>, !.result = None,
                      !.idx = 0, !.at_write = 0, !.active_generation = 0]
  /\ UNCHANGED <<segments, disk, translation_queue, log, dequeued>>
  /\ TranslationFrame

-----------------------------------------------------------------------------
(* Spec: the threads around the SegmentIndex *)

\* the iterations of run_capture's loop up to a finalize_segment that goes on
\* to push_segment; the finalize after the loop when stop was read
CapSegment(on_stop) ==
  /\ cap.pc = "loop"
  /\ on_stop => stop
  /\ next_name < MaxSegments
  /\ next_name' = next_name + 1
  /\ wav_files' = wav_files \cup {next_name + 1}
  /\ cap' = [cap EXCEPT !.pc = "push",
                        !.info = Some(SegmentInfo(next_name + 1, 1000)),
                        !.exiting = on_stop]
  /\ UNCHANGED <<segments, disk, transcribe_rx, stream_pos, window_in_flight,
                 window_rx, vad_rx, obs>>
  /\ CaptureFrame

Providers == {None}

Init ==
  /\ InitShared /\ InitQueueCalls /\ InitCaptureThreads /\ InitPipelineThreads
  /\ InitServices
  /\ config = AudioConfig(800, 300, 10000, 500, 200, FALSE, FALSE)
  /\ budget \in {[starts |-> MaxStarts, stops |-> MaxStops, clears |-> 0,
                  translates |-> MaxTranslates],
                 [starts |-> MaxStarts, stops |-> 0, clears |-> MaxClears,
                  translates |-> MaxTranslates - 1]}

Next ==
  \/ CtlStart
  \/ CtlStartLoad
  \/ CtlStartSpawn
  \/ \E op \in {"stop", "clear"} : CtlStop(op)
  \/ CtlJoin
  \/ CtqDrop
  \/ CtqTranscriptionGeneration
  \/ CtqTranslationGeneration
  \/ CtqPending
  \/ CtqQueue
  \/ ClearFiles
  \/ ClearSegments
  \/ ClearPending
  \/ ClearQueue
  \/ \E on_stop \in BOOLEAN : CapSegment(on_stop)
  \/ CapObserveStop
  \/ CapPush
  \/ CapSave
  \/ CapSend
  \/ TwRecv
  \/ \E asr \in AsrResults : TwApply(asr)
  \/ TwSave
  \/ TwDropCheck
  \/ TwTakePending
  \/ TwOrder
  \/ TwGeneration
  \/ TwPush
  \/ \E name \in 1..MaxSegments, provider \in Providers : TxCall(name, provider)
  \/ TxDropCheck
  \/ TxReady
  \/ TxPending
  \/ TxOrder
  \/ TxGeneration
  \/ TxPush
  \/ XwPop
  \/ XwCollect
  \/ XwInFlight
  \/ XwBegin
  \/ XwRead
  \/ \E ok \in BOOLEAN, translated \in SUBSET (1..MaxSegments) : XwCall(ok, translated)
  \/ XwApply
  \/ XwSave
  \/ XwDone

Spec == Init /\ [][Next]_vars

\* C1: once clear_task_queues has returned, no translation is written and no
\* segment_translated event is emitted for a request of a generation from
\* before that clear.
C1_NoPreClearTranslation ==
  /\ \A i \in 1..Len(log) :
       /\ log[i].generation >= log[i].cleared_at_write
       /\ log[i].generation >= log[i].cleared_at_emit
  /\ xw.pc = "save" => xw.active_generation >= xw.at_write

\* C2 as stated: within one translation generation the segment_translated
\* events are non-decreasing in the segments' order.
C2_EventsNonDecreasing ==
  \A i, j \in 1..Len(log) :
     (i < j /\ log[i].generation = log[j].generation) =>
        log[i].order <= log[j].order

\* C2: within one translation generation in which no request was pushed below
\* an order the worker had already popped, the segment_translated events are
\* non-decreasing in the segments' order.
C2_EventsNonDecreasingUnlessLatePush ==
  \A i, j \in 1..Len(log) :
     (/\ i < j
      /\ log[i].generation = log[j].generation
      /\ log[i].generation \notin late_push) =>
        log[i].order <= log[j].order

\* two segments were popped and translated in one generation, their events in
\* increasing order, and no push came late
C2_Witness ==
  /\ \E i, j \in 1..Len(log) :
        /\ i < j
        /\ log[i].generation = log[j].generation
        /\ log[i].order < log[j].order
  /\ late_push = {}
  /\ \E d1, d2 \in dequeued : d1[1] = d2[1] /\ d1[2] # d2[2]

\* C4: a segment has a translation (a text, not the empty string that marks a
\* failed translation) only if its transcript is present and not empty.
C4_TranslationOnlyWithTranscript ==
  \A i \in 1..Len(segments) :
     (IsSome(segments[i].translation) /\ Unwrap(segments[i].translation) # <<>>) =>
        IsSome(segments[i].transcript) /\ Unwrap(segments[i].transcript) # <<>>

\* C5: no TranslationRequest is in the queue for a segment whose sanitized
\* transcript is the empty string.
C5_NoRequestForEmptyTranscript ==
  \A i \in 1..Len(translation_queue.items) :
     TranscriptOf(segments, translation_queue.items[i].name) # Some(<<>>)

\* a thread has changed the list, or removed index.json, and has not yet
\* finished its write
WriteInProgress ==
  \/ cap.pc = "save"
  \/ vw.pc = "save"
  \/ tw.pc = "save"
  \/ xw.pc = "save"
  \/ ctl.pc = "clear_segments"

\* C6: when no write is in progress the list read back from index.json equals
\* the in-memory list.
C6_IndexEqualsDisk == ~WriteInProgress => disk = segments

\* clear_task_queues has returned and start has not been called since
AfterClearBeforeStart ==
  /\ drop_segment_translation
  /\ ctq_returned > 0
  /\ ctl.pc \notin {"ctq_transcription", "ctq_translation", "ctq_pending",
                    "ctq_queue", "start_load", "start_spawn"}

\* C11: from the return of clear_task_queues until the next start no step adds
\* a request to the translation queue or an entry to the pending-provider map.
C11_NoEnqueueAfterClear ==
  [][AfterClearBeforeStart =>
       /\ translation_queue'.pending \subseteq translation_queue.pending
       /\ DOMAIN translation_pending' \subseteq DOMAIN translation_pending]_vars

\* C12: a pending-provider entry is never left behind: while no
\* clear_task_queues has begun, an entry for a segment whose transcript has
\* been applied exists only while the transcription worker is still on its way
\* to take_pending_translation for that segment.
C12_PendingEntryConsumed ==
  \A name \in DOMAIN translation_pending :
     (/\ ~drop_segment_translation
      /\ ctq_returned = 0
      /\ IsSome(TranscriptOf(segments, name))) =>
        /\ tw.name = name
        /\ tw.pc \in {"save", "drop_check", "take_pending"}

\* translate_segment_provider_group has gone through the Err arm for its
\* batch, and the translation generation is still the one it began with
BatchFailed ==
  /\ xw.pc = "done"
  /\ IsSome(xw.result)
  /\ ~Unwrap(xw.result).ok
  /\ translation_generation = xw.active_generation

TranslationOf(list, name) ==
  IF Found(list, name) THEN list[Position(list, name)].translation ELSE None

\* C23: when the batched translate call fails and the translation generation
\* has not advanced, every segment of that batch that is in the SegmentIndex
\* has translation = "" and the worker's previous-batch history is empty; and
\* a batch that is sent while the history is empty carries no context.
C23_FailedBatchEmptiesTranslationsAndHistory ==
  /\ BatchFailed =>
       /\ \A i \in 1..Len(xw.items) :
             Found(segments, xw.items[i].id) =>
               TranslationOf(segments, xw.items[i].id) = Some(<<>>)
       /\ xw.history.previous_batch = <<>>
  /\ (xw.pc = "call" /\ xw.history.previous_batch = <<>>) => xw.context = <<>>

\* a batch that was sent with the previous batch as context has failed
C23_Witness ==
  /\ BatchFailed
  /\ xw.items # <<>>
  /\ \A i \in 1..Len(xw.items) : Found(segments, xw.items[i].id)
  /\ xw.context # <<>>

\* the transcription worker has applied a transcript to an indexed segment and
\* is on the rest of that iteration
TranscriptApplied ==
  /\ tw.pc \in {"save", "drop_check", "take_pending", "order", "generation", "push"}
  /\ IsSome(tw.asr)
  /\ Found(segments, tw.name)

\* C24: after the transcription worker has processed a task of the current
\* generation for an indexed segment, the segment's transcript is not null: it
\* is the sanitized text, the empty string when sanitization rejected the
\* text, and the empty string when ASR failed.
C24_ProcessedTranscriptNeverNull ==
  TranscriptApplied =>
    LET asr == Unwrap(tw.asr)
        transcript == TranscriptOf(segments, tw.name)
    IN /\ IsSome(transcript)
       /\ asr.ok => Unwrap(transcript) = sanitize_transcript_text(asr.text)
       /\ ~asr.ok => Unwrap(transcript) = <<>>
       /\ (asr.ok /\ should_drop_non_speech_transcript(Trim(asr.text))) =>
            Unwrap(transcript) = <<>>

\* a transcript that sanitization rejected has been applied
C24_Witness ==
  /\ TranscriptApplied
  /\ Unwrap(tw.asr).ok
  /\ Unwrap(tw.asr).text # <<>>
  /\ TranscriptOf(segments, tw.name) = Some(<<>>)

\* the transcription worker takes the task at the head of its channel
TranscriptionDequeue ==
  /\ transcribe_rx # <<>>
  /\ transcribe_rx' = Tail(transcribe_rx)

\* the translation worker pops the request at the front of the queue
TranslationDequeue ==
  /\ translation_queue.items # <<>>
  /\ translation_queue' = TranslationQueue_pop(translation_queue)
  /\ ctl' = ctl

\* C26: a transcription task whose generation tag differs from
\* transcription_generation at the moment it is dequeued, and a translation
\* request whose tag differs from translation_generation at the moment it is
\* popped, is dropped: the worker is back at its queue without the task, no
\* ASR and no batch call is begun for it, and no SegmentRecord is modified.
C26_StaleTaskDropped ==
  [][/\ (/\ TranscriptionDequeue
         /\ Head(transcribe_rx).generation # transcription_generation) =>
           /\ tw' = TranscriptionWorkerIdle
           /\ segments' = segments
     /\ (/\ TranslationDequeue
         /\ TranslationQueue_front(translation_queue).generation #
              translation_generation) =>
           /\ xw'.pc = "pop"
           /\ xw'.first = None
           /\ translation_in_flight' = translation_in_flight
           /\ segments' = segments]_vars

\* both workers are about to dequeue a task of an earlier generation
C26_Witness ==
  /\ queues
  /\ tw.pc = "recv"
  /\ transcribe_rx # <<>>
  /\ Head(transcribe_rx).generation # transcription_generation
  /\ xw.pc = "pop"
  /\ translation_queue.items # <<>>
  /\ TranslationQueue_front(translation_queue).generation # translation_generation

\* the batch in progress holds a request for the segment
InBatch(name) == \E i \in 1..Len(xw.items) : xw.items[i].id = name

\* C27: processing a translation batch writes a translation and emits
\* segment_translated only for the segments whose requests are in that batch:
\* a segment of the previous batch that is supplied as context is not written,
\* whether the call succeeded or failed.
C27_OnlyBatchSegmentsWritten ==
  xw.pc = "save" => InBatch(xw.all_names[xw.idx])

\* CaptureManager::is_translation_busy, with its three reads taken at once
is_translation_busy ==
  \/ DOMAIN translation_pending # {}
  \/ /\ queues
     /\ \/ translation_in_flight
        \/ Len(translation_queue.items) > 0

\* the translation worker holds a request of the current generation that it
\* has neither applied nor discarded
WorkerHoldsRequest ==
  /\ IsSome(xw.first)
  /\ Unwrap(xw.first).generation = translation_generation
  /\ xw.pc \in {"collect", "in_flight", "begin", "read", "call"}

\* C36: is_translation_busy returns true at every moment at which some
\* accepted segment-translation request is pending, queued, or being processed
\* by the translation worker, that is, accepted but not yet applied, discarded
\* or cancelled.
C36_BusyWhileRequestOutstanding ==
  (\/ DOMAIN translation_pending # {}
   \/ queues /\ translation_queue.items # <<>>
   \/ WorkerHoldsRequest)
    => is_translation_busy

-----------------------------------------------------------------------------
(* SpecTranslate: two capture sessions with a stop in between, every         *)
(* transcription succeeding, translate_segment commands for two providers,   *)
(* and a provider that answers for every item or fails                       *)

\* the provider argument of translate_segment: none, or a provider's name
TranslateProviders == {None, Some(<<"p">>)}

\* transcribe_file returns a text
TranslateAsr == [ok |-> TRUE, text |-> <<"H", "i", " ">>]

InitTranslate ==
  /\ InitShared /\ InitQueueCalls /\ InitCaptureThreads /\ InitPipelineThreads
  /\ InitServices
  /\ config = AudioConfig(800, 300, 10000, 500, 200, FALSE, FALSE)
  /\ budget = [starts |-> MaxStarts + 1, stops |-> MaxStops, clears |-> 0,
               translates |-> MaxTranslates]

\* the ids of all_names
AllNames == {xw.all_names[i] : i \in 1..Len(xw.all_names)}

NextTranslate ==
  \/ CtlStart
  \/ CtlStartLoad
  \/ CtlStartSpawn
  \/ CtlStop("stop")
  \/ CtlJoin
  \/ CtqDrop
  \/ CtqTranscriptionGeneration
  \/ CtqTranslationGeneration
  \/ CtqPending
  \/ CtqQueue
  \/ CapSegment(FALSE)
  \/ CapObserveStop
  \/ CapPush
  \/ CapSave
  \/ CapSend
  \/ TwRecv
  \/ TwApply(TranslateAsr)
  \/ TwSave
  \/ TwDropCheck
  \/ TwTakePending
  \/ TwOrder
  \/ TwGeneration
  \/ TwPush
  \/ \E name \in 1..MaxSegments, provider \in TranslateProviders : TxCall(name, provider)
  \/ TxDropCheck
  \/ TxReady
  \/ TxPending
  \/ TxOrder
  \/ TxGeneration
  \/ TxPush
  \/ XwPop
  \/ XwCollect
  \/ XwInFlight
  \/ XwBegin
  \/ XwRead
  \/ \E ok \in BOOLEAN : XwCall(ok, IF ok THEN AllNames ELSE {})
  \/ XwApply
  \/ XwSave
  \/ XwDone

SpecTranslate == InitTranslate /\ [][NextTranslate]_vars

\* the batch of the worker is about to be sent to the provider
BatchSent == xw.pc = "call"

\* segment_translated was emitted for the name by a batch of this generation
\* and provider
TranslatedEarlier(name, generation, provider) ==
  \E j \in 1..Len(log) :
    /\ log[j].name = name
    /\ log[j].generation = generation
    /\ log[j].provider = provider

\* the batch before this one was of another generation or another provider
PreviousBatchDiffers ==
  /\ log # <<>>
  /\ \/ log[Len(log)].generation # xw.active_generation
     \/ log[Len(log)].provider # Unwrap(xw.first).provider

\* C39: the context sent with a translation batch consists only of items
\* translated earlier in the same translation generation with the same
\* provider and never exceeds the configured batch size; when the generation
\* has advanced or the provider differs from the previous batch's, the batch
\* is sent with empty context.
C39_ContextFromSameGenerationAndProvider ==
  BatchSent =>
    /\ Len(xw.context) <= BatchSize
    /\ \A i \in 1..Len(xw.context) :
         TranslatedEarlier(xw.context[i].id, xw.active_generation,
                           Unwrap(xw.first).provider)
    /\ PreviousBatchDiffers => xw.context = <<>>

\* a second batch of the same generation and provider is sent with the first
\* batch's item as its context
C39_Witness ==
  /\ BatchSent
  /\ Len(xw.context) = 1
  /\ xw.context[1].id # xw.items[1].id
  /\ IsSome(Unwrap(xw.first).provider)

-----------------------------------------------------------------------------
(* SpecStop: capture sessions that are started and stopped, never cleared,   *)
(* with the transcription worker; no translation is requested.               *)
(* SpecStopFair adds that the threads keep running: the capture thread       *)
(* observes the stop flag and finishes what it began, a command that was     *)
(* issued runs to its end, and the transcription worker takes every step it  *)
(* can take.                                                                 *)

InitStop ==
  /\ InitShared /\ InitQueueCalls /\ InitCaptureThreads /\ InitPipelineThreads
  /\ InitServices
  /\ config = AudioConfig(800, 300, 10000, 500, 200, FALSE, FALSE)
  /\ budget = [starts |-> MaxStarts, stops |-> MaxStops, clears |-> 0, translates |-> 0]

StopCommandStep ==
  \/ CtlStartLoad
  \/ CtlStartSpawn
  \/ CtlJoin
  \/ CtqDrop
  \/ CtqTranscriptionGeneration
  \/ CtqTranslationGeneration
  \/ CtqPending
  \/ CtqQueue

StopCaptureStep ==
  \/ CapObserveStop
  \/ CapPush
  \/ CapSave
  \/ CapSend

StopWorkerStep ==
  \/ TwRecv
  \/ \E asr \in AsrResults : TwApply(asr)
  \/ TwSave
  \/ TwDropCheck
  \/ TwTakePending

NextStop ==
  \/ CtlStart
  \/ CtlStop("stop")
  \/ \E on_stop \in BOOLEAN : CapSegment(on_stop)
  \/ StopCommandStep
  \/ StopCaptureStep
  \/ StopWorkerStep

SpecStop == InitStop /\ [][NextStop]_vars

SpecStopFair ==
  /\ SpecStop
  /\ WF_vars(StopCommandStep)
  /\ WF_vars(StopCaptureStep)
  /\ WF_vars(StopWorkerStep)

\* the segment is in the SegmentIndex without a transcript
AwaitsTranscript(name) == Found(segments, name) /\ TranscriptOf(segments, name) = None

\* the segment is in the SegmentIndex with its transcript set
HasTranscript(name) == Found(segments, name) /\ TranscriptOf(segments, name) # None

\* C35: every segment appended to the SegmentIndex eventually has its
\* transcript set (possibly to the empty string), provided the workers keep
\* running and the segment list is not cleared; this includes the segments
\* finalized at, or still waiting in the transcription queue at, the moment
\* capture is stopped.
C35_AppendedSegmentEventuallyTranscribed ==
  \A name \in 1..MaxSegments : AwaitsTranscript(name) ~> HasTranscript(name)

-----------------------------------------------------------------------------
(* SpecClear: one capture session, frame by frame, with the VAD worker and   *)
(* the transcription worker, ended by clear                                  *)

ClearConfigs == {AudioConfig(4, 2, 0, 0, 0, FALSE, vad) : vad \in BOOLEAN}

InitClear ==
  /\ InitShared /\ InitQueueCalls /\ InitCaptureThreads /\ InitPipelineThreads
  /\ InitServices
  /\ config \in ClearConfigs
  /\ budget = [starts |-> MaxStarts, stops |-> 0, clears |-> MaxClears, translates |-> 0]

NextClear ==
  \/ CtlStart
  \/ CtlStartLoad
  \/ CtlStartSpawn
  \/ CtlStop("clear")
  \/ CtlJoin
  \/ CtqDrop
  \/ CtqTranscriptionGeneration
  \/ CtqTranslationGeneration
  \/ CtqPending
  \/ CtqQueue
  \/ ClearFiles
  \/ ClearSegments
  \/ ClearPending
  \/ ClearQueue
  \/ \E n \in 0..MaxBatch, silent \in BOOLEAN : CapRead(n, silent)
  \/ CapObserveStop
  \/ CapPush
  \/ CapSave
  \/ CapSend
  \/ \E should_keep \in BOOLEAN : VwRecv(should_keep)
  \/ VwPush
  \/ VwSave
  \/ VwSend
  \/ TwRecv
  \/ \E asr \in AsrResults : TwApply(asr)
  \/ TwSave
  \/ TwDropCheck
  \/ TwTakePending

SpecClear == InitClear /\ [][NextClear]_vars

\* clear has returned and no start has been issued since
ClearReturned ==
  /\ budget.clears < MaxClears
  /\ ctl.pc = "idle"
  /\ handle = "none"

\* the step ends push_segment or apply_transcript: the index is saved and
\* segment_created or segment_transcribed is emitted
SegmentEventEmitted ==
  \/ cap.pc = "save" /\ cap'.pc # "save"
  \/ vw.pc = "save" /\ vw'.pc # "save"
  \/ tw.pc = "save" /\ tw'.pc # "save"
  \/ log' # log

\* C37: after clear has returned and until the next start, the in-memory
\* SegmentIndex stays empty and no segment_created, segment_transcribed or
\* segment_translated event is emitted: work left over from the stopped
\* session never adds or modifies a segment.
C37_NothingAfterClear ==
  [][ClearReturned => segments' = <<>> /\ ~SegmentEventEmitted]_vars

-----------------------------------------------------------------------------
(* SpecWhisper: WhisperServerManager under concurrent ensure_started / stop *)

MaxEnsures == 3        \* SpecWhisper: ensure_started calls
MaxWsStops == 1        \* SpecWhisper: stop calls
MaxExits == 1          \* SpecWhisper: children that exit on their own

ServerDevice == {"Gpu", "Cpu"}
DevicePreference == {"Auto", "Gpu", "Cpu"}

\* what a device's start can come to inside one start_server call
Failed == {"missing", "spawn_err", "exited", "timeout"}

\* ServerHandle {child, url, device}; the url is named by the child
\* (each spawn picks its own port)
ServerHandle(child, device) == [child |-> child, url |-> child, device |-> device]

\* resolve_server_exe(..).is_some()
resolve_server_exe(device) ==
  IF device = "Gpu" THEN ws_env.gpu_exe ELSE ws_env.cpu_exe

\* start_server: the device tried first under a preference
FirstDevice(pref) == IF pref = "Cpu" THEN "Cpu" ELSE "Gpu"

\* a variant of start_server without the fall-through to the CPU binary
NextAfterFailureNoFallback(pref, device) == "none"

\* start_server: the device tried after `device` failed, "none" to return Err
NextAfterFailure(pref, device) ==
  IF pref = "Auto" /\ device = "Gpu" THEN "Cpu" ELSE "none"

\* the record of a thread after `device` came to `outcome` (a failure)
AfterFailure(th, device, outcome) ==
  LET noted == IF device = "Gpu" THEN [th EXCEPT !.gpu = outcome]
                                 ELSE [th EXCEPT !.cpu = outcome]
      next == NextAfterFailure(ws_env.pref, device)
  IN IF next = "none"
       THEN [noted EXCEPT !.pc = "relock", !.result = None, !.child = 0]
       ELSE [noted EXCEPT !.pc = "resolve", !.device = next, !.child = 0]

\* ensure_started, first lock section
EsEnter(t) ==
  /\ ws_th[t].pc \in {"idle", "done"}
  /\ ws_count.ensures < MaxEnsures
  /\ ws_count' = [ws_count EXCEPT !.ensures = @ + 1, !.since_stop = @ + 1]
  /\ LET s1 == IF IsSome(ws_state.child) /\ Unwrap(ws_state.child) \notin ws_alive
                 THEN [ws_state EXCEPT !.child = None, !.url = None,
                                       !.device = None]
                 ELSE ws_state
     IN IF IsSome(s1.url)
          THEN /\ ws_state' = s1
               /\ ws_th' = [ws_th EXCEPT ![t] =
                              [EnsureIdle EXCEPT !.pc = "done",
                                                 !.ret = Unwrap(s1.url)]]
          ELSE IF s1.starting
            THEN /\ ws_state' = s1
                 /\ ws_th' = [ws_th EXCEPT ![t] =
                                [EnsureIdle EXCEPT !.pc = "wait_ready"]]
            ELSE /\ ws_state' = [s1 EXCEPT !.starting = TRUE]
                 /\ ws_th' = [ws_th EXCEPT ![t] =
                                [EnsureIdle EXCEPT !.pc = "start"]]
  /\ UNCHANGED <<ws_alive, ws_env>>

\* start_server: the model path and the preference
SsBegin(t) ==
  /\ ws_th[t].pc = "start"
  /\ ws_th' = [ws_th EXCEPT ![t] =
                 IF ~ws_env.model
                   THEN [@ EXCEPT !.pc = "relock", !.result = None]
                   ELSE [@ EXCEPT !.pc = "resolve",
                                  !.device = FirstDevice(ws_env.pref)]]
  /\ UNCHANGED <<ws_state, ws_alive, ws_env, ws_count>>

\* start_server: resolve_server_exe for the device at hand
SsResolve(t) ==
  /\ ws_th[t].pc = "resolve"
  /\ ws_th' = [ws_th EXCEPT ![t] =
                 IF resolve_server_exe(@.device)
                   THEN [@ EXCEPT !.pc = "spawn"]
                   ELSE AfterFailure(@, @.device, "missing")]
  /\ UNCHANGED <<ws_state, ws_alive, ws_env, ws_count>>

\* spawn_server up to cmd.spawn()
SpawnServer(t, ok) ==
  /\ ws_th[t].pc = "spawn"
  /\ IF ok
       THEN /\ ws_count' = [ws_count EXCEPT !.spawned = @ + 1]
            /\ ws_alive' = ws_alive \cup {ws_count.spawned + 1}
            /\ ws_th' = [ws_th EXCEPT ![t] =
                           [@ EXCEPT !.pc = "wait_port",
                                     !.child = ws_count.spawned + 1]]
       ELSE /\ ws_th' = [ws_th EXCEPT ![t] =
                           AfterFailure(@, @.device, "spawn_err")]
            /\ UNCHANGED <<ws_alive, ws_count>>
  /\ UNCHANGED <<ws_state, ws_env>>

\* wait_for_port, as it leaves its loop
WaitForPort(t, timed_out) ==
  /\ ws_th[t].pc = "wait_port"
  /\ LET th == ws_th[t] IN
     IF th.child \notin ws_alive
       THEN /\ ws_th' = [ws_th EXCEPT ![t] = AfterFailure(th, th.device, "exited")]
            /\ UNCHANGED ws_alive
       ELSE IF timed_out
         THEN /\ ws_alive' = ws_alive \ {th.child}
              /\ ws_th' = [ws_th EXCEPT ![t] =
                             AfterFailure(th, th.device, "timeout")]
         ELSE /\ ws_th' = [ws_th EXCEPT ![t] =
                             [(IF th.device = "Gpu"
                                 THEN [th EXCEPT !.gpu = "ready"]
                                 ELSE [th EXCEPT !.cpu = "ready"])
                                EXCEPT !.pc = "relock",
                                       !.result = Some(ServerHandle(th.child,
                                                                    th.device))]]
              /\ UNCHANGED ws_alive
  /\ UNCHANGED <<ws_state, ws_env, ws_count>>

\* ensure_started, second lock section
EsStore(t) ==
  /\ ws_th[t].pc = "relock"
  /\ LET th == ws_th[t] IN
     IF IsSome(th.result)
       THEN LET h == Unwrap(th.result) IN
            /\ ws_state' = [child |-> Some(h.child), url |-> Some(h.url),
                            device |-> Some(h.device), starting |-> FALSE]
            /\ ws_th' = [ws_th EXCEPT ![t] = [th EXCEPT !.pc = "done",
                                                        !.ret = h.url]]
       ELSE /\ ws_state' = [ws_state EXCEPT !.starting = FALSE]
            /\ ws_th' = [ws_th EXCEPT ![t] = [th EXCEPT !.pc = "done",
                                                        !.ret = "err"]]
  /\ UNCHANGED <<ws_alive, ws_env, ws_count>>

\* wait_for_ready, as it leaves its loop (another round of the loop changes
\* nothing)
WaitForReady(t) ==
  /\ ws_th[t].pc = "wait_ready"
  /\ ws_th' = [ws_th EXCEPT ![t] =
                 [@ EXCEPT !.pc = "done",
                           !.ret = IF IsSome(ws_state.url)
                                     THEN Unwrap(ws_state.url) ELSE "err"]]
  /\ UNCHANGED <<ws_state, ws_alive, ws_env, ws_count>>

\* WhisperServerManager::stop
WsStop ==
  /\ ws_count.stops < MaxWsStops
  /\ ws_count' = [ws_count EXCEPT !.stops = @ + 1, !.since_stop = 0]
  /\ ws_alive' = IF IsSome(ws_state.child)
                   THEN ws_alive \ {Unwrap(ws_state.child)} ELSE ws_alive
  /\ ws_state' = ServerState_new
  /\ UNCHANGED <<ws_th, ws_env>>

\* a whisper-server process exits on its own
WsChildExit(child) ==
  /\ child \in ws_alive
  /\ ws_count.exits < MaxExits
  /\ ws_count' = [ws_count EXCEPT !.exits = @ + 1]
  /\ ws_alive' = ws_alive \ {child}
  /\ UNCHANGED <<ws_state, ws_th, ws_env>>

WhisperFrame ==
  UNCHANGED <<shvars, qvars, capvars, pipevars, ck, ragvars, appvars, auxvars>>

InitWhisper ==
  /\ InitShared /\ InitQueueCalls /\ InitCaptureThreads /\ InitPipelineThreads
  /\ config = AudioConfig(4, 2, 0, 0, 0, FALSE, FALSE)
  /\ budget = [starts |-> 0, stops |-> 0, clears |-> 0, translates |-> 0]
  /\ ws_state = ServerState_new
  /\ ws_alive = {}
  /\ ws_th = [t \in WsThreads |-> EnsureIdle]
  /\ ws_env \in [pref : DevicePreference, gpu_exe : BOOLEAN, cpu_exe : BOOLEAN,
                 model : BOOLEAN]
  /\ ws_count = [spawned |-> 0, ensures |-> 0, stops |-> 0, exits |-> 0,
                  since_stop |-> 0]
  /\ ck = ChunkerIdle
  /\ InitRagIdle
  /\ InitAppIdle
  /\ InitAuxIdle

NextWhisper ==
  \/ \E t \in WsThreads : EsEnter(t) /\ WhisperFrame
  \/ \E t \in WsThreads : SsBegin(t) /\ WhisperFrame
  \/ \E t \in WsThreads : SsResolve(t) /\ WhisperFrame
  \/ \E t \in WsThreads, ok \in BOOLEAN : SpawnServer(t, ok) /\ WhisperFrame
  \/ \E t \in WsThreads, timed_out \in BOOLEAN :
        WaitForPort(t, timed_out) /\ WhisperFrame
  \/ \E t \in WsThreads : EsStore(t) /\ WhisperFrame
  \/ \E t \in WsThreads : WaitForReady(t) /\ WhisperFrame
  \/ WsStop /\ WhisperFrame
  \/ \E child \in 1..(2 * MaxEnsures) : WsChildExit(child) /\ WhisperFrame

SpecWhisper == InitWhisper /\ [][NextWhisper]_vars

\* the threads inside start_server
Spawning ==
  {t \in WsThreads : ws_th[t].pc \in {"start", "resolve", "spawn", "wait_port"}}

\* C13: whatever the interleaving of ensure_started and stop calls, at most one
\* thread is inside start_server and at most one whisper-server child process
\* is alive.
C13_OneSpawnerOneChild ==
  /\ Cardinality(Spawning) <= 1
  /\ Cardinality(ws_alive) <= 1

\* stop has returned and no ensure_started call has begun since
StoppedAndQuiet == ws_count.stops > 0 /\ ws_count.since_stop = 0

\* C38: after stop has returned, no child process is alive or recorded and no
\* url is recorded until a later ensure_started call begins, even if an
\* ensure_started was in progress when stop was called; and in every state a
\* url is recorded only when a child is recorded.
C38_NothingRunsAfterStop ==
  /\ StoppedAndQuiet =>
       /\ ws_alive = {}
       /\ ws_state.child = None
       /\ ws_state.url = None
  /\ IsSome(ws_state.url) => IsSome(ws_state.child)

\* C14: once start_server has returned: under Auto a failed GPU start is
\* followed by a CPU start whose url is the result when it became ready; under
\* Gpu or Cpu the other device is not tried and a failure is the result; and
\* ensure_started returns that result.
C14_AutoFallsBackExplicitFails ==
  \A t \in WsThreads :
    LET th == ws_th[t] IN
    th.pc \in {"relock", "done"} =>
      /\ (ws_env.pref = "Auto" /\ th.gpu \in Failed) =>
            /\ th.cpu # "none"
            /\ th.cpu = "ready" =>
                  /\ IsSome(th.result)
                  /\ Unwrap(th.result).device = "Cpu"
                  /\ th.pc = "done" => th.ret = Unwrap(th.result).url
      /\ ws_env.pref = "Gpu" =>
            /\ th.cpu = "none"
            /\ th.gpu \in Failed => (th.result = None /\ (th.pc = "done" => th.ret = "err"))
      /\ ws_env.pref = "Cpu" =>
            /\ th.gpu = "none"
            /\ th.cpu \in Failed => (th.result = None /\ (th.pc = "done" => th.ret = "err"))

\* ensure_started has returned the CPU server's url after the GPU start of
\* the same call failed under Auto
C14_Witness ==
  \E t \in WsThreads :
    /\ ws_env.pref = "Auto"
    /\ ws_th[t].pc = "done"
    /\ ws_th[t].gpu \in {"exited", "timeout"}
    /\ ws_th[t].cpu = "ready"
    /\ ws_th[t].ret = Unwrap(ws_th[t].result).url

-----------------------------------------------------------------------------
(* SpecChunker: rag/chunker.rs, one call of chunk_text step by step *)

MaxTextLen == 5        \* SpecChunker: characters in the text
MaxChunkSize == 3      \* SpecChunker: largest chunk_size
MaxOverlap == 4        \* SpecChunker: largest overlap

DEFAULT_SOFT_WINDOW == 120

BOUNDARIES ==
  {"\n", "U+3002", "U+FF01", "U+FF1F", ".", "!", "?", ";", "U+FF1B", "U+3001",
   "U+FF0C", ","}

\* the characters the texts are made of: a letter, a space, a boundary and a
\* boundary that is whitespace
ChunkerChars == {"a", " ", ".", "\n"}

Min2(a, b) == IF a <= b THEN a ELSE b

\* usize::saturating_sub
SaturatingSub(a, b) == IF a >= b THEN a - b ELSE 0

\* chars[start..end] (0-based, end exclusive)
Slice(chars, start, end) == SubSeq(chars, start + 1, end)

\* a variant of find_boundary that searches the whole window
find_boundary_whole(chars, start, end) ==
  LET hits == {idx \in start..(end - 1) : chars[idx + 1] \in BOUNDARIES}
  IN IF hits = {} THEN None
     ELSE Some((CHOOSE idx \in hits : \A other \in hits : other <= idx) + 1)

\* find_boundary
find_boundary(chars, start, end) ==
  LET window_start == Max2(SaturatingSub(end, DEFAULT_SOFT_WINDOW), start)
      hits == {idx \in window_start..(end - 1) : chars[idx + 1] \in BOUNDARIES}
  IN IF hits = {} THEN None
     ELSE Some((CHOOSE idx \in hits : \A other \in hits : other <= idx) + 1)

\* chunk_text: the end of the window that begins at start
WindowEnd(chars, start, chunk_size) ==
  LET plain == Min2(start + chunk_size, Len(chars))
      best == find_boundary(chars, start, plain)
      snapped == IF plain < Len(chars) /\ IsSome(best) /\ Unwrap(best) > start
                   THEN Unwrap(best) ELSE plain
  IN IF snapped <= start THEN plain ELSE snapped

\* a variant of chunk_text that keeps every window
KeepChunkAlways(chunk) == TRUE

\* chunk_text: !chunk.trim().is_empty()
KeepChunk(chunk) == Trim(chunk) # <<>>

\* a variant of chunk_text that begins the next window one character late
NextStartLate(start, end, overlap) == end + 1

\* chunk_text: where the next window begins
NextStart(start, end, overlap) ==
  LET next_start == SaturatingSub(end, overlap)
  IN IF next_start <= start THEN end ELSE next_start

\* chunk_text's loop from the window that begins at start, as a function
RECURSIVE ChunksFrom(_, _, _, _)
ChunksFrom(chars, start, chunk_size, overlap) ==
  IF start >= Len(chars) THEN <<>>
  ELSE LET end == WindowEnd(chars, start, chunk_size)
           chunk == Slice(chars, start, end)
           kept == IF KeepChunk(chunk) THEN <<chunk>> ELSE <<>>
       IN IF end <= start THEN <<>>
          ELSE IF end >= Len(chars) THEN kept
          ELSE kept \o ChunksFrom(chars, NextStart(start, end, overlap),
                                  chunk_size, overlap)

\* chunk_text
chunk_text(text, chunk_size, overlap) ==
  IF chunk_size = 0 \/ text = <<>> THEN <<>>
  ELSE ChunksFrom(text, 0, chunk_size,
                  Min2(overlap, SaturatingSub(chunk_size, 1)))

\* chunk_text up to the loop
ChunkBegin ==
  /\ ck.pc = "call"
  /\ ck' = IF ck.chunk_size = 0 \/ ck.text = <<>>
             THEN [ck EXCEPT !.pc = "done"]
             ELSE [ck EXCEPT !.pc = "loop",
                             !.clamped = Min2(ck.overlap,
                                              SaturatingSub(ck.chunk_size, 1)),
                             !.start = 0]
  /\ UNCHANGED <<shvars, qvars, capvars, pipevars, wsvars, ragvars, appvars, auxvars>>

\* chunk_text: one round of the loop
ChunkLoop ==
  /\ ck.pc = "loop"
  /\ LET chars == ck.text
         start == ck.start
         end == WindowEnd(chars, start, ck.chunk_size)
         chunk == Slice(chars, start, end)
         keep == KeepChunk(chunk)
         pushed == [ck EXCEPT
                      !.chunks = IF keep THEN Append(@, chunk) ELSE @,
                      !.windows = IF keep THEN Append(@, <<start, end>>) ELSE @,
                      !.dropped = IF keep THEN @ ELSE Append(@, <<start, end>>)]
     IN ck' = IF start >= Len(chars) \/ end <= start
                THEN [ck EXCEPT !.pc = "done"]
                ELSE IF end >= Len(chars)
                  THEN [pushed EXCEPT !.pc = "done"]
                  ELSE [pushed EXCEPT
                          !.start = NextStart(start, end, ck.clamped)]
  /\ UNCHANGED <<shvars, qvars, capvars, pipevars, wsvars, ragvars, appvars, auxvars>>

RECURSIVE Texts(_)
Texts(n) ==
  IF n = 0 THEN {<<>>}
  ELSE Texts(n - 1) \cup
       {Append(text, ch) : text \in {t \in Texts(n - 1) : Len(t) = n - 1},
                           ch \in ChunkerChars}

InitChunker ==
  /\ InitShared /\ InitQueueCalls /\ InitCaptureThreads /\ InitPipelineThreads
  /\ InitWhisperIdle /\ InitRagIdle /\ InitAppIdle /\ InitAuxIdle
  /\ config = AudioConfig(4, 2, 0, 0, 0, FALSE, FALSE)
  /\ budget = [starts |-> 0, stops |-> 0, clears |-> 0, translates |-> 0]
  /\ \E text \in Texts(MaxTextLen), chunk_size \in 0..MaxChunkSize,
        overlap \in 0..MaxOverlap :
       ck = [pc |-> "call", text |-> text, chunk_size |-> chunk_size,
             overlap |-> overlap, clamped |-> 0, start |-> 0, chunks |-> <<>>,
             windows |-> <<>>, dropped |-> <<>>]

NextChunker ==
  \/ ChunkBegin
  \/ ChunkLoop

SpecChunker == InitChunker /\ [][NextChunker]_vars

\* the 0-based positions of the text that lie in one of the windows
Covered(windows) ==
  {i \in 0..(Len(ck.text) - 1) :
     \E k \in 1..Len(windows) : windows[k][1] <= i /\ i < windows[k][2]}

\* chunk_text has returned the chunks of its windows
ChunkTextReturned ==
  /\ ck.pc = "done"
  /\ \A k \in 1..Len(ck.chunks) :
        ck.chunks[k] = Slice(ck.text, ck.windows[k][1], ck.windows[k][2])
  /\ ck.chunks = chunk_text(ck.text, ck.chunk_size, ck.overlap)

\* C18: with chunk_size >= 1, every character of the text lies in one of
\* the returned chunks.
C18_ChunksCoverText ==
  (ck.pc = "done" /\ ck.chunk_size >= 1) =>
     /\ ChunkTextReturned
     /\ Covered(ck.windows) = 0..(Len(ck.text) - 1)

\* C18 as amended: with chunk_size >= 1, every character of the text lies in
\* one of the returned chunks or in a window that was discarded because its
\* trimmed content is empty, so only whitespace can be missing.
C18_ChunksCoverTextButBlankWindows ==
  (ck.pc = "done" /\ ck.chunk_size >= 1) =>
     /\ ChunkTextReturned
     /\ Covered(ck.windows) \cup Covered(ck.dropped) = 0..(Len(ck.text) - 1)
     /\ \A i \in Covered(ck.dropped) \ Covered(ck.windows) :
           ck.text[i + 1] \in Whitespace

\* a call that returned two overlapping chunks and discarded a blank window
C18_Witness ==
  /\ ck.pc = "done"
  /\ Len(ck.windows) >= 2
  /\ ck.windows[2][1] < ck.windows[1][2]
  /\ ck.dropped # <<>>
  /\ Covered(ck.windows) # 0..(Len(ck.text) - 1)

\* C19: every returned chunk has at most chunk_size characters and is not
\* empty after trimming, whatever the overlap; chunk_size = 0 returns nothing.
C19_ChunksBoundedNonBlank ==
  ck.pc = "done" =>
     /\ \A k \in 1..Len(ck.chunks) :
           /\ Len(ck.chunks[k]) <= ck.chunk_size
           /\ Trim(ck.chunks[k]) # <<>>
     /\ ck.chunk_size = 0 => ck.chunks = <<>>

\* a call with overlap >= chunk_size that returned several chunks and met a
\* blank window
C19_Witness ==
  /\ ck.pc = "done"
  /\ ck.chunk_size >= 1
  /\ ck.overlap >= ck.chunk_size
  /\ Len(ck.chunks) >= 2
  /\ ck.dropped # <<>>
  /\ \E k \in 1..Len(ck.chunks) : Len(ck.chunks[k]) = ck.chunk_size

-----------------------------------------------------------------------------
(* SpecChunkerLong: chunk_text over the short texts of SpecChunker and over *)
(* texts longer than the soft window of find_boundary                       *)

LongChunkSizes == {DEFAULT_SOFT_WINDOW + 1, DEFAULT_SOFT_WINDOW + 2}
LongOverlaps == {0, 1, DEFAULT_SOFT_WINDOW + 3}

\* n letters
Letters(n) == [i \in 1..n |-> "a"]

\* texts of DEFAULT_SOFT_WINDOW + 3 characters: two characters, a run of
\* letters, three characters
LongTexts ==
  {<<c1, c2>> \o Letters(DEFAULT_SOFT_WINDOW - 2) \o <<c3, c4, c5>> :
     c1 \in {"a", "."}, c2 \in {"a", "."}, c3 \in {"a", "."}, c4 \in {"a", "."},
     c5 \in {"a", "."}}

ChunkCall(text, chunk_size, overlap) ==
  [pc |-> "call", text |-> text, chunk_size |-> chunk_size,
   overlap |-> overlap, clamped |-> 0, start |-> 0, chunks |-> <<>>,
   windows |-> <<>>, dropped |-> <<>>]

InitChunkerLong ==
  /\ InitShared /\ InitQueueCalls /\ InitCaptureThreads /\ InitPipelineThreads
  /\ InitWhisperIdle /\ InitRagIdle /\ InitAppIdle /\ InitAuxIdle
  /\ config = AudioConfig(4, 2, 0, 0, 0, FALSE, FALSE)
  /\ budget = [starts |-> 0, stops |-> 0, clears |-> 0, translates |-> 0]
  /\ \/ \E text \in Texts(MaxTextLen), chunk_size \in 0..MaxChunkSize,
           overlap \in 0..MaxOverlap : ck = ChunkCall(text, chunk_size, overlap)
     \/ \E text \in LongTexts, chunk_size \in LongChunkSizes, overlap \in LongOverlaps :
           ck = ChunkCall(text, chunk_size, overlap)

SpecChunkerLong == InitChunkerLong /\ [][NextChunker]_vars

\* a round of the loop that cuts a window
WindowCut == ck.pc = "loop" /\ ck.start < Len(ck.text) /\ ck' # ck

\* the end of the window the round has cut: the window it kept or dropped
CutEnd ==
  IF Len(ck'.windows) > Len(ck.windows)
  THEN ck'.windows[Len(ck'.windows)][2]
  ELSE ck'.dropped[Len(ck'.dropped)][2]

\* the positions of the boundary characters among the last
\* DEFAULT_SOFT_WINDOW characters of the window [start, start + chunk_size)
SoftBoundaries ==
  {i \in ck.start..(ck.start + ck.chunk_size - 1) :
     /\ i >= ck.start + ck.chunk_size - DEFAULT_SOFT_WINDOW
     /\ i < Len(ck.text)
     /\ ck.text[i + 1] \in BOUNDARIES}

\* the window stops short of the end of the text and has such a boundary
SnapsToBoundary ==
  ck.start + ck.chunk_size < Len(ck.text) /\ SoftBoundaries # {}

LastSoftBoundary == CHOOSE i \in SoftBoundaries : \A j \in SoftBoundaries : j <= i

\* where the next window begins, for an overlap
StartAfter(end, overlap) == IF end - overlap > ck.start THEN end - overlap ELSE end

\* C34: when the window [start, start + chunk_size) does not reach the end of
\* the text and has a boundary character within its last 120 characters, the
\* chunk ends immediately after the last such character; otherwise it ends at
\* start + chunk_size; the next chunk starts at end - overlap when that is
\* greater than the current start, else at end.
C34_WindowEndsAndNextStart ==
  [][WindowCut =>
       /\ CutEnd = IF SnapsToBoundary THEN LastSoftBoundary + 1
                   ELSE ck.start + ck.chunk_size
       /\ ck'.pc = "loop" => ck'.start = StartAfter(CutEnd, ck.overlap)]_vars

\* C34 as amended: a window that reaches beyond the text ends at the end of
\* the text, and the overlap is the one chunk_text works with, which is at
\* most chunk_size - 1.
C34_WindowEndsAndNextStartClamped ==
  [][WindowCut =>
       /\ CutEnd = IF SnapsToBoundary THEN LastSoftBoundary + 1
                   ELSE Min2(ck.start + ck.chunk_size, Len(ck.text))
       /\ ck'.pc = "loop" =>
            ck'.start = StartAfter(CutEnd, Min2(ck.overlap, ck.chunk_size - 1))]_vars

\* a window of more than DEFAULT_SOFT_WINDOW characters stopped short of the
\* end of the text and was not cut at its first character, the only boundary
\* in it, which lies before its last DEFAULT_SOFT_WINDOW characters; the next
\* window began inside it
C34_Witness ==
  /\ ck.chunk_size > DEFAULT_SOFT_WINDOW
  /\ ck.chunk_size < Len(ck.text)
  /\ Len(ck.windows) >= 2
  /\ ck.text[1] \in BOUNDARIES
  /\ ck.windows[1] = <<0, ck.chunk_size>>
  /\ ck.windows[2][1] = ck.chunk_size - 1

-----------------------------------------------------------------------------
(* SpecRag: rag/service.rs over a store, one action per call *)

MaxRagAdds == 2        \* SpecRag: calls of index_add_files
MaxRagSyncs == 2       \* SpecRag: calls of index_sync_project
MaxRagSearches == 1    \* SpecRag: calls of search
MaxDiskEdits == 1      \* SpecRag: files written or removed in the project directory
MaxRagFaults == 1      \* SpecRag: calls of the embedder or the store that fail
MaxAddPaths == 2       \* SpecRag: paths in one index_add_files call
MaxTopK == 2           \* SpecRag: largest top_k

DEFAULT_CHUNK_SIZE == 1000
DEFAULT_CHUNK_OVERLAP == 150

RagProjects == {"p", "q"}

\* file names in the project's root directory (the directory is flat, and no
\* two names differ in case only: the application runs on Windows)
RagNames ==
  {<<"a", ".", "t", "x", "t">>, <<"M", ".", "m", "d">>, <<"p", ".", "p", "n", "g">>}

\* file contents; the last one chunks to nothing
RagTexts == {<<"x">>, <<"y">>, <<" ">>}

RagQueries == {<<"x">>, <<"z">>, <<"o">>}

ALLOWED_EXTENSIONS ==
  {<<"m", "d">>, <<"m", "a", "r", "k", "d", "o", "w", "n">>,
   <<"t", "x", "t">>, <<"r", "s", "t">>, <<"a", "d", "o", "c">>,
   <<"o", "r", "g">>, <<"r", "s">>, <<"g", "o">>, <<"p", "y">>,
   <<"j", "s">>, <<"j", "s", "x">>, <<"t", "s">>, <<"t", "s", "x">>,
   <<"j", "a", "v", "a">>, <<"k", "t">>, <<"s", "w", "i", "f", "t">>,
   <<"r", "b">>, <<"p", "h", "p">>, <<"c", "s">>, <<"f", "s">>,
   <<"s", "c", "a", "l", "a">>, <<"c">>, <<"h">>, <<"c", "c">>,
   <<"c", "p", "p">>, <<"h", "p", "p">>, <<"j", "s", "o", "n">>,
   <<"t", "o", "m", "l">>, <<"y", "a", "m", "l">>, <<"y", "m", "l">>,
   <<"i", "n", "i">>, <<"c", "f", "g">>, <<"c", "o", "n", "f">>,
   <<"e", "n", "v">>, <<"s", "q", "l">>, <<"h", "t", "m", "l">>,
   <<"c", "s", "s">>, <<"s", "c", "s", "s">>, <<"l", "e", "s", "s">>,
   <<"x", "m", "l">>, <<"v", "u", "e">>, <<"s", "v", "e", "l", "t", "e">>,
   <<"s", "h">>, <<"b", "a", "t">>, <<"p", "s", "1">>,
   <<"d", "o", "c", "k", "e", "r", "f", "i", "l", "e">>,
   <<"m", "a", "k", "e", "f", "i", "l", "e">>,
   <<"g", "r", "a", "d", "l", "e">>,
   <<"p", "r", "o", "p", "e", "r", "t", "i", "e", "s">>}

IGNORED_DIRS ==
  {<<".", "g", "i", "t">>, <<".", "h", "g">>, <<".", "s", "v", "n">>,
   <<".", "i", "d", "e", "a">>, <<".", "v", "s", "c", "o", "d", "e">>,
   <<"n", "o", "d", "e", "_", "m", "o", "d", "u", "l", "e", "s">>,
   <<"d", "i", "s", "t">>, <<"b", "u", "i", "l", "d">>,
   <<"t", "a", "r", "g", "e", "t">>, <<"o", "u", "t">>,
   <<"c", "o", "v", "e", "r", "a", "g", "e">>, <<".", "n", "e", "x", "t">>,
   <<".", "t", "u", "r", "b", "o">>, <<".", "c", "a", "c", "h", "e">>,
   <<".", "v", "e", "n", "v">>,
   <<"_", "_", "p", "y", "c", "a", "c", "h", "e", "_", "_">>}

DISALLOWED_EXTENSIONS ==
  {<<"p", "n", "g">>, <<"j", "p", "g">>, <<"j", "p", "e", "g">>,
   <<"g", "i", "f">>, <<"b", "m", "p">>, <<"s", "v", "g">>,
   <<"w", "e", "b", "p">>, <<"m", "p", "3">>, <<"w", "a", "v">>,
   <<"f", "l", "a", "c">>, <<"o", "g", "g">>, <<"m", "p", "4">>,
   <<"m", "k", "v">>, <<"a", "v", "i">>, <<"m", "o", "v">>,
   <<"z", "i", "p">>, <<"r", "a", "r">>, <<"7", "z">>, <<"t", "a", "r">>,
   <<"g", "z">>, <<"b", "z", "2">>, <<"p", "d", "f">>, <<"d", "o", "c">>,
   <<"d", "o", "c", "x">>, <<"p", "p", "t">>, <<"p", "p", "t", "x">>,
   <<"x", "l", "s">>, <<"x", "l", "s", "x">>, <<"e", "x", "e">>,
   <<"d", "l", "l">>, <<"s", "o">>, <<"d", "y", "l", "i", "b">>}

\* the 1-based position of the last "." of a name, 0 if there is none
LastDot(name) ==
  LET dots == {i \in 1..Len(name) : name[i] = "."}
  IN IF dots = {} THEN 0 ELSE CHOOSE i \in dots : \A j \in dots : j <= i

\* Path::extension of a file name
Extension(name) ==
  IF LastDot(name) <= 1 THEN None
  ELSE Some(SubSeq(name, LastDot(name) + 1, Len(name)))

\* should_skip_path, for a path made of the file name alone (the components of
\* the root directory are not in the ignore set)
should_skip_path(name) == ToLowercase(name) \in IGNORED_DIRS

\* extension_allowed
extension_allowed(name) ==
  IF Extension(name) = None
    THEN ToLowercase(name) \in {<<"d", "o", "c", "k", "e", "r", "f", "i", "l", "e">>,
                                <<"m", "a", "k", "e", "f", "i", "l", "e">>}
    ELSE LET ext == ToLowercase(Unwrap(Extension(name)))
         IN ext \notin DISALLOWED_EXTENSIONS /\ ext \in ALLOWED_EXTENSIONS

\* is_minified_code; the line-length tests need lines of more than 2000
\* characters or texts of more than 200000 bytes, which RagTexts has not
is_minified_code(name, text) ==
  IF Extension(name) = None THEN FALSE
  ELSE IF ToLowercase(Unwrap(Extension(name))) \notin
            {<<"j", "s">>, <<"j", "s", "x">>, <<"t", "s">>, <<"t", "s", "x">>}
    THEN FALSE
    ELSE \E i \in 1..Len(name) :
            i + 4 <= Len(name) /\
            SubSeq(ToLowercase(name), i, i + 4) = <<".", "m", "i", "n", ".">>

\* normalize_relative_path of a file in the root directory
normalize_relative_path(name) == ToLowercase(name)

\* hash_text: SHA-256, taken as injective, so a hash is named by its input
hash_text(data) == data

\* the file_id of a file of a project
FileId(project_id, name) == hash_text(<<project_id, normalize_relative_path(name)>>)

\* the names of the files of a directory (a set of files of different names)
FileNames(files) == {file.name : file \in files}

\* the file of a name
FileOf(files, name) == CHOOSE file \in files : file.name = name

\* read_text: Err for a file that is missing, too large, binary or not UTF-8
read_text(files, name) ==
  IF name \in FileNames(files) /\ FileOf(files, name).readable
    THEN Some(FileOf(files, name).text)
    ELSE None

\* RagService::prepare_file_candidate
prepare_file_candidate(files, project_id, name) ==
  IF should_skip_path(name) \/ ~extension_allowed(name) THEN None
  ELSE IF read_text(files, name) = None THEN None
  ELSE IF is_minified_code(name, Unwrap(read_text(files, name))) THEN None
  ELSE Some([file_id |-> FileId(project_id, name),
             file_path |-> normalize_relative_path(name),
             file_hash |-> hash_text(Unwrap(read_text(files, name))),
             text |-> Unwrap(read_text(files, name)),
             size |-> Len(FileOf(files, name).text)])

\* the embedding model's raw output: a stand-in that sends the texts to
\* vectors of different lengths and directions, and "o" to the zero vector
embed(prefix, text) ==
  CASE text = <<"x">> -> <<2, 0>>
    [] text = <<"y">> -> <<0, 3>>
    [] text = <<"z">> -> <<0 - 2, 0>>
    [] OTHER -> <<0, 0>>

\* the square root of a perfect square
Sqrt(n) == CHOOSE r \in 0..n : r * r = n

Dot(left, right) ==
  LET n == Min2(Len(left), Len(right))
      F[i \in 0..n] == IF i = 0 THEN 0 ELSE F[i - 1] + left[i] * right[i]
  IN F[n]

\* normalize_embedding
normalize_embedding(embedding) ==
  LET norm == Sqrt(Dot(embedding, embedding))
  IN IF norm = 0 THEN embedding
     ELSE [i \in 1..Len(embedding) |-> embedding[i] \div norm]

\* cosine_similarity
cosine_similarity(left, right) ==
  IF Dot(left, left) = 0 \/ Dot(right, right) = 0 THEN 0
  ELSE Dot(left, right) \div (Sqrt(Dot(left, left)) * Sqrt(Dot(right, right)))

\* RagStore::add_chunks
add_chunks(store, chunks) == [store EXCEPT !.chunks = @ \o chunks]

\* the chunks table without the chunks of a file
WithoutFile(chunks, project_id, file_id) ==
  SelectSeq(chunks, LAMBDA chunk : ~(chunk.project_id = project_id /\
                                     chunk.file_id = file_id))

\* RagStore::delete_by_file: the store afterwards
delete_by_file(store, project_id, file_id) ==
  [store EXCEPT !.chunks = WithoutFile(@, project_id, file_id)]

\* RagStore::delete_by_file: the number it returns
delete_by_file_count(store, project_id, file_id) ==
  IF store.kind = "memory"
    THEN Len(store.chunks) - Len(WithoutFile(store.chunks, project_id, file_id))
    ELSE 0

\* RagStore::upsert_file_manifest
upsert_file_manifest(store, record) ==
  [store EXCEPT !.files =
     {old \in @ : ~(old.project_id = record.project_id /\
                    old.file_id = record.file_id)} \cup {record}]

\* RagManifestStore::list_files
list_files(store, project_id) ==
  {record \in store.files : record.project_id = project_id}

\* RagManifestStore::get_file_manifest
get_file_manifest(store, project_id, file_id) ==
  LET found == {record \in store.files : /\ record.project_id = project_id
                                         /\ record.file_id = file_id}
  IN IF found = {} THEN None ELSE Some(CHOOSE record \in found : TRUE)

\* ChunkHit of a chunk
ChunkHit(chunk, score) ==
  [project_id |-> chunk.project_id, file_id |-> chunk.file_id,
   file_path |-> chunk.file_path, chunk_id |-> chunk.chunk_id,
   chunk_index |-> chunk.chunk_index, text |-> chunk.text, score |-> score]

\* a variant of the comparison of MemoryStore::search that sorts upwards
BeforeInSortAscending(a, b) == a.score <= b.score

\* MemoryStore::search: a stays before b in hits.sort_by (the sort is stable)
BeforeInSort(a, b) == a.score >= b.score

\* hits.sort_by: insertion of a hit into a sorted list, behind its equals
InsertHit(sorted, hit) ==
  LET ahead == {i \in 0..Len(sorted) :
                  \A j \in 1..i : BeforeInSort(sorted[j], hit)}
      at == CHOOSE i \in ahead : \A j \in ahead : j <= i
  IN SubSeq(sorted, 1, at) \o <<hit>> \o SubSeq(sorted, at + 1, Len(sorted))

RECURSIVE SortHits(_)
SortHits(hits) ==
  IF hits = <<>> THEN <<>>
  ELSE InsertHit(SortHits(SubSeq(hits, 1, Len(hits) - 1)), hits[Len(hits)])

\* MemoryStore::search: project_ids.contains(&chunk.project_id)
InProjects(chunk, project_ids) == chunk.project_id \in project_ids

\* MemoryStore::search
MemoryStore_search(store, query_embedding, project_ids, top_k) ==
  LET candidates ==
        SelectSeq(store.chunks,
                  LAMBDA chunk : /\ InProjects(chunk, project_ids)
                                 /\ Len(chunk.embedding) = Len(query_embedding))
      hits == [i \in 1..Len(candidates) |->
                 ChunkHit(candidates[i],
                          cosine_similarity(candidates[i].embedding,
                                            query_embedding))]
      sorted == SortHits(hits)
  IN SubSeq(sorted, 1, Min2(top_k, Len(sorted)))

\* IndexReport::default
IndexReport_default ==
  [indexed_files |-> 0, updated_files |-> 0, deleted_files |-> 0,
   skipped_files |-> <<>>, chunks_added |-> 0, chunks_deleted |-> 0]

SkippedFile(path, reason) == [path |-> path, reason |-> reason]

\* the steps of indexing one file that can return Err: the embedding model,
\* and the two writes of a LanceDbStore (a MemoryStore always returns Ok)
FaultSteps == {"embed", "add_chunks", "upsert"}

\* the call that `fault` makes fail, if any, is this step on this file
Faulty(fault, name, step) ==
  IsSome(fault) /\ Unwrap(fault).name = name /\ Unwrap(fault).step = step

\* RagService::build_chunks, given the embedding model answers
build_chunks(project_id, candidate, now) ==
  LET chunks == chunk_text(candidate.text, DEFAULT_CHUNK_SIZE,
                           DEFAULT_CHUNK_OVERLAP)
  IN [index \in 1..Len(chunks) |->
        [project_id |-> project_id,
         file_id |-> candidate.file_id,
         file_path |-> candidate.file_path,
         file_hash |-> candidate.file_hash,
         chunk_id |-> <<candidate.file_id, index - 1>>,
         chunk_index |-> index - 1,
         text |-> chunks[index],
         embedding |-> normalize_embedding(embed("passage: ", chunks[index])),
         updated_at |-> now]]

\* the FileRecord written for a candidate
FileRecord(project_id, candidate, now) ==
  [project_id |-> project_id, file_id |-> candidate.file_id,
   file_path |-> candidate.file_path, file_hash |-> candidate.file_hash,
   size |-> Some(candidate.size), is_deleted |-> Some(FALSE),
   updated_at |-> now]

\* the state of a running index call: the store, the report so far, whether
\* a `?` has returned Err, and the files whose processing failed
IndexRun(store) ==
  [store |-> store, report |-> IndexReport_default, err |-> FALSE,
   failed |-> {}]

\* index_add_files / index_sync_project: the part of the loop body that
\* indexes a candidate, replacing the chunks of an existing record or not
IndexCandidate(run, project_id, name, candidate, replace, fault, now) ==
  LET deleted == delete_by_file_count(run.store, project_id, candidate.file_id)
      s1 == IF replace
              THEN delete_by_file(run.store, project_id, candidate.file_id)
              ELSE run.store
      r1 == IF replace
              THEN [run.report EXCEPT !.chunks_deleted = @ + deleted,
                                      !.updated_files = @ + 1]
              ELSE [run.report EXCEPT !.indexed_files = @ + 1]
      chunks == build_chunks(project_id, candidate, now)
      s2 == add_chunks(s1, chunks)
      s3 == upsert_file_manifest(s2, FileRecord(project_id, candidate, now))
  IN IF Len(chunks) > 0 /\ Faulty(fault, name, "embed")
       THEN [run EXCEPT !.store = s1, !.err = TRUE, !.failed = @ \cup {name}]
     ELSE IF Len(chunks) > 0 /\ Faulty(fault, name, "add_chunks")
       THEN [run EXCEPT !.store = s1, !.err = TRUE, !.failed = @ \cup {name}]
     ELSE IF Faulty(fault, name, "upsert")
       THEN [run EXCEPT !.store = s2, !.err = TRUE, !.failed = @ \cup {name}]
     ELSE [run EXCEPT !.store = s3,
                      !.report = [r1 EXCEPT !.chunks_added = @ + Len(chunks)]]

\* the file exists and passes the filters, but read_text returns Err
ReadFails(files, name) ==
  /\ name \in FileNames(files)
  /\ ~should_skip_path(name) /\ extension_allowed(name)
  /\ read_text(files, name) = None

\* index_add_files: the loop body for one path
AddFile(run, files, project_id, name, fault, now) ==
  LET candidate == prepare_file_candidate(files, project_id, name)
      existing == get_file_manifest(run.store, project_id,
                                    Unwrap(candidate).file_id)
  IN IF candidate = None
       THEN [run EXCEPT
               !.report.skipped_files = Append(@, SkippedFile(name, "filtered")),
               !.failed = IF ReadFails(files, name) THEN @ \cup {name} ELSE @]
     ELSE IF /\ IsSome(existing)
             /\ Unwrap(existing).file_hash = Unwrap(candidate).file_hash
             /\ Unwrap(existing).is_deleted # Some(TRUE)
       THEN [run EXCEPT
               !.report.skipped_files =
                  Append(@, SkippedFile(Unwrap(candidate).file_path, "unchanged"))]
     ELSE IndexCandidate(run, project_id, name, Unwrap(candidate),
                         IsSome(existing), fault, now)

\* index_add_files: the loop over file_paths, left at the first Err (the
\* run after one path is bound as a value before the loop goes on)
RECURSIVE AddFiles(_, _, _, _, _, _)
AddFiles(run, files, project_id, file_paths, fault, now) ==
  IF file_paths = <<>> \/ run.err THEN run
  ELSE CHOOSE done \in
         {AddFiles(next, files, project_id, Tail(file_paths), fault, now) :
            next \in {AddFile(run, files, project_id, Head(file_paths),
                              fault, now)}} : TRUE

\* RagService::index_add_files, the project's root being set and present
index_add_files(store, files, project_id, file_paths, fault, now) ==
  AddFiles(IndexRun(store), files, project_id, file_paths, fault, now)

\* RagService::scan_project_files: the names that yield a candidate
scan_project_files(files, project_id) ==
  {name \in FileNames(files) :
     prepare_file_candidate(files, project_id, name) # None}

\* index_sync_project: the manifest records taken as existing
ExistingRecords(store, project_id) ==
  {record \in list_files(store, project_id) : record.is_deleted # Some(TRUE)}

\* index_sync_project: the records whose file is not among the candidates
GoneRecords(store, files, project_id) ==
  {record \in ExistingRecords(store, project_id) :
     record.file_id \notin {FileId(project_id, name) :
                              name \in scan_project_files(files, project_id)}}

\* index_sync_project: the first loop, over the records in some order
RECURSIVE MarkDeleted(_, _, _, _)
MarkDeleted(run, project_id, gone, now) ==
  IF gone = {} THEN run
  ELSE LET record == CHOOSE r \in gone : TRUE
           deleted == delete_by_file_count(run.store, project_id, record.file_id)
           s1 == delete_by_file(run.store, project_id, record.file_id)
           s2 == upsert_file_manifest(s1, [record EXCEPT
                                             !.is_deleted = Some(TRUE),
                                             !.updated_at = now])
       IN CHOOSE done \in
            {MarkDeleted(next, project_id, gone \ {record}, now) :
               next \in {[run EXCEPT
                            !.store = s2,
                            !.report = [@ EXCEPT !.chunks_deleted = @ + deleted,
                                                 !.deleted_files = @ + 1]]}} :
            TRUE

\* a variant of index_sync_project that indexes every candidate again
ShouldIndexAlways(existing, candidate) == TRUE

\* index_sync_project: should_index
ShouldIndex(existing, candidate) ==
  existing = None \/ Unwrap(existing).file_hash # candidate.file_hash

\* index_sync_project: the second loop's body for one candidate; `existing`
\* is the set of records read before the first loop
SyncFile(run, files, project_id, name, existing, fault, now) ==
  LET candidate == Unwrap(prepare_file_candidate(files, project_id, name))
      found == {record \in existing : record.file_id = candidate.file_id}
      record == IF found = {} THEN None ELSE Some(CHOOSE r \in found : TRUE)
  IN IF ~ShouldIndex(record, candidate) THEN run
     ELSE IndexCandidate(run, project_id, name, candidate, IsSome(record),
                         fault, now)

\* index_sync_project: the second loop in the order the map yields the
\* candidates, left at the first Err
RECURSIVE SyncFiles(_, _, _, _, _, _, _)
SyncFiles(run, files, project_id, order, existing, fault, now) ==
  IF order = <<>> \/ run.err THEN run
  ELSE CHOOSE done \in
         {SyncFiles(next, files, project_id, Tail(order), existing, fault, now) :
            next \in {SyncFile(run, files, project_id, Head(order), existing,
                               fault, now)}} : TRUE

\* RagService::index_sync_project with root_dir_override = Some(root), the
\* root being present; a file that read_text refuses is left out silently
index_sync_project(store, files, project_id, order, fault, now) ==
  CHOOSE result \in
    {[done EXCEPT !.failed = @ \cup {name \in FileNames(files) :
                                        ReadFails(files, name)}] :
       done \in
         {SyncFiles(marked, files, project_id, order, existing, fault, now) :
            marked \in {MarkDeleted(IndexRun(store), project_id, gone, now) :
                          gone \in {GoneRecords(store, files, project_id)}},
            existing \in {ExistingRecords(store, project_id)}}} : TRUE

\* RagService::search over a MemoryStore; Err is None
search(store, query, project_ids, top_k) ==
  IF project_ids = {} THEN None
  ELSE Some(MemoryStore_search(store,
                               normalize_embedding(embed("query: ", query)),
                               project_ids, top_k))

\* the orders in which the elements of a set can come
Orders(S) ==
  {order \in [1..Cardinality(S) -> S] :
     \A i, j \in 1..Cardinality(S) : order[i] = order[j] => i = j}

\* the lists of distinct paths a caller hands to index_add_files
PathLists ==
  UNION {Orders(S) : S \in {T \in SUBSET RagNames : Cardinality(T) <= MaxAddPaths}}

\* a call that is made to return Err (a call the run does make), or none
Faults == {None} \cup {Some([name |-> name, step |-> step]) :
                         name \in RagNames, step \in FaultSteps}

\* the store the call runs on can make that call fail
FaultPossible(fault) ==
  IsSome(fault) => /\ rag_count.faults > 0
                   /\ Unwrap(fault).step # "embed" => rag_store.kind = "lancedb"

\* the time a call writes into updated_at
Now == rag_count.clock + 1

\* rag_count after a call, with or without a fault in it
Counted(call, fault) ==
  [rag_count EXCEPT ![call] = @ - 1, !.clock = @ + 1,
                    !.faults = IF IsSome(fault) THEN @ - 1 ELSE @]

RagFrame ==
  UNCHANGED <<shvars, qvars, capvars, pipevars, wsvars, ck, appvars, auxvars>>

\* a call of index_add_files
RagAdd(project_id, file_paths, fault) ==
  /\ rag_count.adds > 0
  /\ FaultPossible(fault)
  /\ IsSome(fault) => \E i \in 1..Len(file_paths) :
                         file_paths[i] = Unwrap(fault).name
  /\ \E run \in {index_add_files(rag_store, rag_files, project_id, file_paths,
                                 fault, Now)} :
        /\ IsSome(fault) => run.err
        /\ rag_store' = run.store
        /\ rag_ret' = [RagNoCall EXCEPT
                         !.op = "add", !.project_id = project_id,
                         !.names = {file_paths[i] : i \in 1..Len(file_paths)},
                         !.ok = ~run.err,
                         !.report = IF run.err THEN <<>> ELSE run.report,
                         !.before = rag_store, !.failed = run.failed]
  /\ rag_clean' = {}
  /\ rag_count' = Counted("adds", fault)
  /\ UNCHANGED rag_files
  /\ RagFrame

\* a call of index_sync_project
RagSync(project_id, order, fault) ==
  /\ rag_count.syncs > 0
  /\ FaultPossible(fault)
  /\ IsSome(fault) => Unwrap(fault).name \in FileNames(rag_files)
  /\ order \in Orders(scan_project_files(rag_files, project_id))
  /\ \E run \in {index_sync_project(rag_store, rag_files, project_id, order,
                                    fault, Now)} :
        /\ IsSome(fault) => run.err
        /\ rag_store' = run.store
        /\ rag_ret' = [RagNoCall EXCEPT
                         !.op = "sync", !.project_id = project_id,
                         !.names = FileNames(rag_files),
                         !.ok = ~run.err,
                         !.report = IF run.err THEN <<>> ELSE run.report,
                         !.before = rag_store, !.failed = run.failed,
                         !.repeated = project_id \in rag_clean]
        /\ rag_clean' = IF run.err THEN {} ELSE {project_id}
  /\ rag_count' = Counted("syncs", fault)
  /\ UNCHANGED rag_files
  /\ RagFrame

\* a call of search; LanceDbStore::search leaves filtering, scoring and
\* ordering to the lancedb crate, so only the MemoryStore's search is here
RagSearch(query, project_ids, top_k) ==
  /\ rag_count.searches > 0
  /\ rag_store.kind = "memory"
  /\ \E result \in {search(rag_store, query, project_ids, top_k)} :
        rag_ret' = [RagNoCall EXCEPT
                      !.op = "search", !.ok = IsSome(result),
                      !.hits = IF IsSome(result) THEN Unwrap(result) ELSE <<>>,
                      !.before = rag_store,
                      !.project_ids = project_ids, !.top_k = top_k]
  /\ rag_count' = Counted("searches", None)
  /\ UNCHANGED <<rag_store, rag_files, rag_clean>>
  /\ RagFrame

\* a file of the project directory is created or rewritten
RagWrite(name, text, readable) ==
  /\ rag_count.edits > 0
  /\ [name |-> name, text |-> text, readable |-> readable] \notin rag_files
  /\ rag_files' = {file \in rag_files : file.name # name} \cup
                     {[name |-> name, text |-> text, readable |-> readable]}
  /\ rag_ret' = RagNoCall
  /\ rag_clean' = {}
  /\ rag_count' = [rag_count EXCEPT !.edits = @ - 1]
  /\ UNCHANGED rag_store
  /\ RagFrame

\* a file of the project directory is removed
RagRemove(name) ==
  /\ rag_count.edits > 0
  /\ name \in FileNames(rag_files)
  /\ rag_files' = {file \in rag_files : file.name # name}
  /\ rag_ret' = RagNoCall
  /\ rag_clean' = {}
  /\ rag_count' = [rag_count EXCEPT !.edits = @ - 1]
  /\ UNCHANGED rag_store
  /\ RagFrame

\* the directory the service starts from: every name present once and
\* readable, the files differing in their texts; the edits change it
RagDirectories ==
  {{[name |-> name, readable |-> TRUE,
     text |-> IF Extension(name) = Some(<<"m", "d">>) THEN <<"y">> ELSE <<"x">>] :
       name \in RagNames}}

\* the calls a run may make: syncs around an edit of the directory, adds
\* followed by a search, or one add after an edit
RagScenarios ==
  {[clock |-> 0, adds |-> 0, syncs |-> MaxRagSyncs, searches |-> 0,
    edits |-> MaxDiskEdits, faults |-> MaxRagFaults],
   [clock |-> 0, adds |-> MaxRagAdds, syncs |-> 0,
    searches |-> MaxRagSearches, edits |-> 0, faults |-> 0],
   [clock |-> 0, adds |-> MaxRagAdds - 1, syncs |-> 0, searches |-> 0,
    edits |-> MaxDiskEdits, faults |-> MaxRagFaults]}

InitRag ==
  /\ InitShared /\ InitQueueCalls /\ InitCaptureThreads /\ InitPipelineThreads
  /\ InitWhisperIdle
  /\ ck = ChunkerIdle
  /\ InitAppIdle
  /\ InitAuxIdle
  /\ config = AudioConfig(4, 2, 0, 0, 0, FALSE, FALSE)
  /\ budget = [starts |-> 0, stops |-> 0, clears |-> 0, translates |-> 0]
  /\ rag_store \in {Store_new("memory"), Store_new("lancedb")}
  /\ rag_files \in RagDirectories
  /\ rag_ret = RagNoCall
  /\ rag_clean = {}
  /\ rag_count \in RagScenarios

NextRag ==
  \/ \E project_id \in RagProjects, file_paths \in PathLists, fault \in Faults :
        RagAdd(project_id, file_paths, fault)
  \/ \E project_id \in RagProjects, order \in PathLists, fault \in Faults :
        RagSync(project_id, order, fault)
  \/ \E query \in RagQueries, project_ids \in SUBSET RagProjects,
        top_k \in 0..MaxTopK : RagSearch(query, project_ids, top_k)
  \/ \E name \in RagNames, text \in RagTexts, readable \in BOOLEAN :
        RagWrite(name, text, readable)
  \/ \E name \in RagNames : RagRemove(name)

SpecRag == InitRag /\ [][NextRag]_vars

(***************************************************************************)
(* SpecRag: the properties *)
(***************************************************************************)

\* the last call was index_add_files or index_sync_project
IndexCallReturned == rag_ret.op \in {"add", "sync"}

\* the paths listed in the skipped_files of the last call's report
SkippedPaths ==
  {rag_ret.report.skipped_files[i].path :
     i \in 1..Len(rag_ret.report.skipped_files)}

\* the file has a record in the manifest for the content it has on disk
IndexedAsOnDisk(project_id, name) ==
  LET candidate == prepare_file_candidate(rag_files, project_id, name)
      record == get_file_manifest(rag_store, project_id,
                                  Unwrap(candidate).file_id)
  IN candidate # None =>
       /\ IsSome(record)
       /\ Unwrap(record).file_hash = Unwrap(candidate).file_hash
       /\ Unwrap(record).is_deleted = Some(FALSE)

\* C15: when index_sync_project or index_add_files fails on one file
\* (read_text, the embedding model or the store returns Err), the call
\* still returns Ok, the file is listed in skipped_files, and the other
\* files of the call are indexed.
C15_FailingFileSkippedNotAborting ==
  (IndexCallReturned /\ rag_ret.failed # {}) =>
     /\ rag_ret.ok
     /\ rag_ret.failed \subseteq SkippedPaths
     /\ \A name \in rag_ret.names \ rag_ret.failed :
           IndexedAsOnDisk(rag_ret.project_id, name)

\* the chunks a store holds for a file
ChunksOfFile(store, project_id, file_id) ==
  {i \in 1..Len(store.chunks) :
     store.chunks[i].project_id = project_id /\ store.chunks[i].file_id = file_id}

\* some search over the project returns a hit from the file
SearchHitsFile(store, project_id, file_id) ==
  \E query \in RagQueries :
     LET hits == Unwrap(search(store, query, {project_id}, Len(store.chunks)))
     IN \E i \in 1..Len(hits) : hits[i].file_id = file_id

\* the files the store had indexed before the last sync that are no longer
\* among the files of the directory
RemovedFromDisk == GoneRecords(rag_ret.before, rag_files, rag_ret.project_id)

\* C16: after an indexed file is removed from disk, index_sync_project
\* counts it in deleted_files, reports chunks_deleted >= 1 for it when it
\* had chunks, leaves no chunk for its file_id, marks its manifest record
\* is_deleted = true, and a later search returns no hit from that file.
C16_RemovedFileDeleted ==
  (rag_ret.op = "sync" /\ rag_ret.ok) =>
     /\ rag_ret.report.deleted_files = Cardinality(RemovedFromDisk)
     /\ rag_ret.report.chunks_deleted >=
          Cardinality({record \in RemovedFromDisk :
                         ChunksOfFile(rag_ret.before, rag_ret.project_id,
                                      record.file_id) # {}})
     /\ \A record \in RemovedFromDisk :
           /\ ChunksOfFile(rag_store, rag_ret.project_id, record.file_id) = {}
           /\ get_file_manifest(rag_store, rag_ret.project_id, record.file_id)
                # None
           /\ Unwrap(get_file_manifest(rag_store, rag_ret.project_id,
                                       record.file_id)).is_deleted = Some(TRUE)
           /\ rag_store.kind = "memory" =>
                ~SearchHitsFile(rag_store, rag_ret.project_id, record.file_id)

\* the last call was an index_sync_project that returned Ok and followed an
\* index_sync_project of the same project that returned Ok, with no write
\* to the directory and no other index call in between
SecondSyncReturned == rag_ret.op = "sync" /\ rag_ret.ok /\ rag_ret.repeated

\* C17: the second of two index_sync_project runs with no change to the
\* files on disk reports indexed_files = 0, updated_files = 0 and
\* deleted_files = 0, and leaves the chunks and the manifest records as
\* they were.
C17_SecondSyncChangesNothing ==
  SecondSyncReturned =>
     /\ rag_ret.report.indexed_files = 0
     /\ rag_ret.report.updated_files = 0
     /\ rag_ret.report.deleted_files = 0
     /\ rag_store.chunks = rag_ret.before.chunks
     /\ rag_store.files = rag_ret.before.files

\* a second sync of a project that has chunks and a record of a live file
C17_Witness ==
  /\ SecondSyncReturned
  /\ \E i \in 1..Len(rag_store.chunks) :
        rag_store.chunks[i].project_id = rag_ret.project_id
  /\ \E record \in list_files(rag_store, rag_ret.project_id) :
        record.is_deleted = Some(FALSE)

\* the last call was a search that returned Ok
SearchReturned == rag_ret.op = "search" /\ rag_ret.ok

\* the chunk is among the hits of every search over its project that asks
\* for as many hits as the store has chunks
AmongCandidates(store, project_id, chunk_id, text) ==
  \A query \in RagQueries :
     LET hits == Unwrap(search(store, query, {project_id}, Len(store.chunks)))
     IN \E i \in 1..Len(hits) : /\ hits[i].chunk_id = chunk_id
                                /\ hits[i].text = text
                                /\ hits[i].project_id = project_id

\* every chunk of the file, as it is on disk, is a candidate of the searches
FileSearchable(store, files, project_id, name) ==
  LET candidate == prepare_file_candidate(files, project_id, name)
      chunks == chunk_text(Unwrap(candidate).text, DEFAULT_CHUNK_SIZE,
                           DEFAULT_CHUNK_OVERLAP)
  IN candidate # None =>
       \A index \in 1..Len(chunks) :
          AmongCandidates(store, project_id,
                          <<Unwrap(candidate).file_id, index - 1>>,
                          chunks[index])

-----------------------------------------------------------------------------
(* SpecIndex: index_add_files, index_sync_project and index_remove_files     *)
(* over a directory that is edited, every call of the embedder and of the    *)
(* store succeeding                                                          *)

MaxRagRemoves == 1     \* SpecIndex: calls of index_remove_files

\* a variant of the loop body that marks the record and leaves the chunks
RemoveFileKeepChunks(run, project_id, file_id, now) ==
  LET existing == get_file_manifest(run.store, project_id, file_id)
      s2 == IF IsSome(existing)
              THEN upsert_file_manifest(run.store,
                                        [Unwrap(existing) EXCEPT
                                           !.is_deleted = Some(TRUE),
                                           !.updated_at = now])
              ELSE run.store
  IN [run EXCEPT !.store = s2,
                 !.report = [@ EXCEPT !.deleted_files = @ + 1]]

\* index_remove_files: the loop body for one file id
RemoveFile(run, project_id, file_id, now) ==
  LET deleted == delete_by_file_count(run.store, project_id, file_id)
      s1 == delete_by_file(run.store, project_id, file_id)
      existing == get_file_manifest(s1, project_id, file_id)
      s2 == IF IsSome(existing)
              THEN upsert_file_manifest(s1, [Unwrap(existing) EXCEPT
                                               !.is_deleted = Some(TRUE),
                                               !.updated_at = now])
              ELSE s1
  IN [run EXCEPT !.store = s2,
                 !.report = [@ EXCEPT !.chunks_deleted = @ + deleted,
                                      !.deleted_files = @ + 1]]

\* index_remove_files: the loop over ids
RECURSIVE RemoveFiles(_, _, _, _)
RemoveFiles(run, project_id, ids, now) ==
  IF ids = <<>> THEN run
  ELSE CHOOSE done \in
         {RemoveFiles(next, project_id, Tail(ids), now) :
            next \in {RemoveFile(run, project_id, Head(ids), now)}} : TRUE

\* RagService::index_remove_files, the project's root being set: the given
\* ids, then the ids of the given paths
index_remove_files(store, project_id, file_paths, file_ids, now) ==
  LET given == IF IsSome(file_ids) THEN Unwrap(file_ids) ELSE <<>>
      paths == IF IsSome(file_paths) THEN Unwrap(file_paths) ELSE <<>>
      ids == given \o [i \in 1..Len(paths) |-> FileId(project_id, paths[i])]
  IN RemoveFiles(IndexRun(store), project_id, ids, now)

\* the file ids a caller hands to index_remove_files: of either project
RagFileIds == {FileId(project_id, name) : project_id \in RagProjects, name \in RagNames}

\* a call of index_remove_files
RagRemoveFiles(project_id, file_paths, file_ids) ==
  /\ rag_count.removes > 0
  /\ \E run \in {index_remove_files(rag_store, project_id, file_paths, file_ids,
                                    Now)} :
        /\ rag_store' = run.store
        /\ rag_ret' = [RagNoCall EXCEPT
                         !.op = "remove", !.project_id = project_id,
                         !.ok = ~run.err, !.report = run.report,
                         !.before = rag_store]
  /\ rag_clean' = {}
  /\ rag_count' = Counted("removes", None)
  /\ UNCHANGED rag_files
  /\ RagFrame

InitIndex ==
  /\ InitShared /\ InitQueueCalls /\ InitCaptureThreads /\ InitPipelineThreads
  /\ InitWhisperIdle
  /\ ck = ChunkerIdle
  /\ InitAppIdle
  /\ InitAuxIdle
  /\ config = AudioConfig(4, 2, 0, 0, 0, FALSE, FALSE)
  /\ budget = [starts |-> 0, stops |-> 0, clears |-> 0, translates |-> 0]
  /\ rag_store \in {Store_new("memory"), Store_new("lancedb")}
  /\ rag_files \in RagDirectories
  /\ rag_ret = RagNoCall
  /\ rag_clean = {}
  /\ rag_count = [clock |-> 0, adds |-> MaxRagAdds - 1, syncs |-> MaxRagSyncs - 1,
                  removes |-> MaxRagRemoves, searches |-> 0,
                  edits |-> MaxDiskEdits, faults |-> 0]

NextIndex ==
  \/ \E project_id \in RagProjects, file_paths \in PathLists :
        RagAdd(project_id, file_paths, None)
  \/ \E project_id \in RagProjects, order \in PathLists :
        RagSync(project_id, order, None)
  \/ \E project_id \in RagProjects,
        file_paths \in {None} \cup {Some(paths) : paths \in PathLists},
        file_ids \in {None} \cup {Some(<<file_id>>) : file_id \in RagFileIds} :
        RagRemoveFiles(project_id, file_paths, file_ids)
  \/ \E name \in RagNames, text \in RagTexts, readable \in BOOLEAN :
        RagWrite(name, text, readable)
  \/ \E name \in RagNames : RagRemove(name)

SpecIndex == InitIndex /\ [][NextIndex]_vars

\* the manifest record of the chunk's file exists, is not deleted and has
\* the chunk's file_hash
RecordMatches(store, chunk) ==
  \E record \in store.files :
    /\ record.project_id = chunk.project_id
    /\ record.file_id = chunk.file_id
    /\ record.is_deleted = Some(FALSE)
    /\ record.file_hash = chunk.file_hash

\* C40: after any sequence of index_add_files, index_sync_project and
\* index_remove_files calls that complete without error, chunks exist in the
\* store for a (project_id, file_id) only if that file's manifest record
\* exists with is_deleted = false and with file_hash equal to the file_hash
\* carried by those chunks.
C40_ChunksOnlyWithLiveRecord ==
  \A i \in 1..Len(rag_store.chunks) : RecordMatches(rag_store, rag_store.chunks[i])

\* a file removed from the index by index_remove_files, its chunks gone and
\* its record deleted, while another file of the project keeps its chunks
C40_Witness ==
  /\ rag_ret.op = "remove"
  /\ \E record \in rag_store.files :
       /\ record.is_deleted = Some(TRUE)
       /\ ChunksOfFile(rag_ret.before, record.project_id, record.file_id) # {}
       /\ ChunksOfFile(rag_store, record.project_id, record.file_id) = {}
  /\ rag_store.chunks # <<>>

-----------------------------------------------------------------------------
(* SpecProjects: rag/projects.rs, the project index under the calls that write it *)

MaxPjCalls == 3        \* SpecProjects: calls that reach the project index

\* spellings of two directories, M:\a (twice) and M:\b
PjRoots ==
  {<<"M", ":", "\\", "a">>, <<"m", ":", "/", "a", "/">>, <<"M", ":", "\\", "b">>}

PjNames == {<<>>, <<"n">>}

\* str::replace(from, to)
ReplaceChar(text, from, to) ==
  [i \in 1..Len(text) |-> IF text[i] = from THEN to ELSE text[i]]

\* fs::canonicalize when it succeeds: the verbatim path of the directory as it
\* is on disk (drive M:, lowercase names), whatever spelling named it
fs_canonicalize(path) ==
  <<"\\", "\\", "?", "\\", "M">> \o
    Tail(TrimEndMatches(ToLowercase(ReplaceChar(path, "/", "\\")), {"\\"}))

\* fs::canonicalize(root_dir).unwrap_or_else(|_| root_dir)
CanonicalOr(root_dir, canon_ok) ==
  IF canon_ok THEN fs_canonicalize(root_dir) ELSE root_dir

\* normalize_root_dir, built for Windows
normalize_root_dir(root_dir) ==
  ToLowercase(TrimEndMatches(Trim(ReplaceChar(root_dir, "\\", "/")), {"/"}))

\* hash_project_id: a stand-in for the digest that keeps different texts apart
hash_project_id(text) == <<"p", "r", "o", "j", "_">> \o text

\* Path::file_name of a root directory
PathFileName(root_dir) ==
  LET stripped == TrimEndMatches(root_dir, {"/", "\\"})
      seps == {i \in 1..Len(stripped) : stripped[i] \in {"/", "\\"}}
      last == IF seps = {} THEN 0 ELSE CHOOSE i \in seps : \A j \in seps : j <= i
  IN SubSeq(stripped, last + 1, Len(stripped))

\* resolve_project_name
resolve_project_name(input, root_dir, fallback) ==
  IF Trim(input) # <<>> THEN Trim(input)
  ELSE IF Trim(PathFileName(root_dir)) # <<>> THEN PathFileName(root_dir)
  ELSE fallback

ProjectEntry(project_id, project_name, root_dir, updated_at) ==
  [project_id |-> project_id, project_name |-> Some(project_name),
   root_dir |-> root_dir, updated_at |-> updated_at]

\* the positions of the entries with this normalized root
EntriesAtRoot(index, normalized_root) ==
  {i \in 1..Len(index) : normalize_root_dir(index[i].root_dir) = normalized_root}

\* the positions of the entries of a project
EntriesOfProject(index, project_id) ==
  {i \in 1..Len(index) : index[i].project_id = project_id}

\* get_project_root
get_project_root(index, project_id) ==
  IF EntriesOfProject(index, project_id) = {} THEN None
  ELSE Some(index[CHOOSE i \in EntriesOfProject(index, project_id) :
                    \A j \in EntriesOfProject(index, project_id) : i <= j].root_dir)

\* create_project: some entry has the normalized root
RootTaken(index, normalized_root) == EntriesAtRoot(index, normalized_root) # {}

\* upsert_project_root: the index it saves
upsert_project_root(index, project_id, root_dir, canon_ok, now) ==
  LET canonical == CanonicalOr(root_dir, canon_ok)
      found == EntriesOfProject(index, project_id)
      first == CHOOSE i \in found : \A j \in found : i <= j
  IN IF found # {}
       THEN [index EXCEPT ![first] = [@ EXCEPT !.root_dir = canonical,
                                               !.updated_at = now]]
       ELSE Append(index, ProjectEntry(project_id,
                                       resolve_project_name(<<>>, canonical, project_id),
                                       canonical, now))

\* resolve_project_root: `parent` is the common prefix of the parents of the
\* file paths, None when there is none
resolve_project_root(index, project_id, parent) ==
  IF IsSome(get_project_root(index, project_id))
    THEN get_project_root(index, project_id)
    ELSE parent

PjNow == pj_count.calls + 1

ProjectsFrame ==
  UNCHANGED <<shvars, qvars, capvars, pipevars, wsvars, ck, ragvars,
              ob, ob_streams, ob_last, ob_count, auxvars>>

\* create_project on a directory that exists and can be read
PjCreate(project_name, root_dir, canon_ok) ==
  LET canonical_root == CanonicalOr(root_dir, canon_ok)
      normalized_root == normalize_root_dir(canonical_root)
      project_id == hash_project_id(normalized_root)
      taken == RootTaken(pj_index, normalized_root)
  IN /\ pj_count.calls < MaxPjCalls
     /\ pj_index' =
          IF taken THEN pj_index
          ELSE Append(pj_index,
                      ProjectEntry(project_id,
                                   resolve_project_name(project_name, canonical_root,
                                                        project_id),
                                   canonical_root, PjNow))
     /\ pj_ret' = [op |-> "create", ok |-> ~taken, before |-> pj_index,
                   root |-> canonical_root, project_id |-> project_id]
     /\ pj_count' = [pj_count EXCEPT !.calls = @ + 1]
     /\ ProjectsFrame

\* index_add_files as far as the project index goes (lines 72-79)
PjAddFiles(project_id, parent, canon_ok) ==
  LET root_dir == resolve_project_root(pj_index, project_id, parent)
  IN /\ pj_count.calls < MaxPjCalls
     /\ pj_index' =
          IF IsSome(root_dir)
            THEN upsert_project_root(pj_index, project_id, Unwrap(root_dir),
                                     canon_ok, PjNow)
            ELSE pj_index
     /\ pj_ret' = [op |-> "add", ok |-> TRUE, before |-> pj_index,
                   root |-> IF IsSome(root_dir) THEN Unwrap(root_dir) ELSE <<>>,
                   project_id |-> project_id]
     /\ pj_count' = [pj_count EXCEPT !.calls = @ + 1]
     /\ ProjectsFrame

\* index_sync_project as far as the project index goes (lines 142-155)
PjSync(project_id, root_dir_override, canon_ok) ==
  /\ pj_count.calls < MaxPjCalls
  /\ pj_index' =
       IF IsSome(root_dir_override)
         THEN upsert_project_root(pj_index, project_id, Unwrap(root_dir_override),
                                  canon_ok, PjNow)
         ELSE pj_index
  /\ pj_ret' = [op |-> "sync",
                ok |-> IsSome(root_dir_override) \/
                       IsSome(get_project_root(pj_index, project_id)),
                before |-> pj_index,
                root |-> IF IsSome(root_dir_override) THEN Unwrap(root_dir_override)
                         ELSE <<>>,
                project_id |-> project_id]
  /\ pj_count' = [pj_count EXCEPT !.calls = @ + 1]
  /\ ProjectsFrame

\* remove_project, as rag_project_delete calls it
PjDelete(project_id) ==
  /\ pj_count.calls < MaxPjCalls
  /\ pj_index' = SelectSeq(pj_index, LAMBDA entry : entry.project_id # project_id)
  /\ pj_ret' = [op |-> "delete",
                ok |-> EntriesOfProject(pj_index, project_id) # {},
                before |-> pj_index, root |-> <<>>, project_id |-> project_id]
  /\ pj_count' = [pj_count EXCEPT !.calls = @ + 1]
  /\ ProjectsFrame

\* the project ids a caller passes: those create_project gives, and another
PjIds ==
  {hash_project_id(normalize_root_dir(fs_canonicalize(root))) : root \in PjRoots}
    \cup {<<"x">>}

InitProjects ==
  /\ InitShared /\ InitQueueCalls /\ InitCaptureThreads /\ InitPipelineThreads
  /\ InitWhisperIdle
  /\ ck = ChunkerIdle
  /\ InitRagIdle
  /\ InitAuxIdle
  /\ InitProjectsIdle
  /\ InitObserverIdle
  /\ config = AudioConfig(4, 2, 0, 0, 0, FALSE, FALSE)
  /\ budget = [starts |-> 0, stops |-> 0, clears |-> 0, translates |-> 0]

NextProjects ==
  \/ \E project_name \in PjNames, root_dir \in PjRoots, canon_ok \in BOOLEAN :
        PjCreate(project_name, root_dir, canon_ok)
  \/ \E project_id \in PjIds, parent \in {None} \cup {Some(r) : r \in PjRoots},
        canon_ok \in BOOLEAN : PjAddFiles(project_id, parent, canon_ok)
  \/ \E project_id \in PjIds,
        root_dir_override \in {None} \cup {Some(r) : r \in PjRoots},
        canon_ok \in BOOLEAN : PjSync(project_id, root_dir_override, canon_ok)
  \/ \E project_id \in PjIds : PjDelete(project_id)

SpecProjects == InitProjects /\ [][NextProjects]_vars

\* C21: no two entries of the project index have the same normalized
\* root_dir, whatever sequence of project create, project delete,
\* index_add_files and index_sync_project has run; and create_project on a
\* root whose normalized form is already in the index fails and leaves the
\* index as it was.
C21_NormalizedRootsUnique ==
  /\ \A i, j \in 1..Len(pj_index) :
        normalize_root_dir(pj_index[i].root_dir) =
          normalize_root_dir(pj_index[j].root_dir) => i = j
  /\ (/\ pj_ret.op = "create"
      /\ EntriesAtRoot(pj_ret.before, normalize_root_dir(pj_ret.root)) # {}) =>
        ~pj_ret.ok /\ pj_index = pj_ret.before

-----------------------------------------------------------------------------
(* SpecObserver: the live translation events at the observer window.       *)
(* translate_live commands run concurrently; each emits start, then chunks, *)
(* then done or error on the one event channel, and the observer handles    *)
(* the events in the order in which they were emitted.                      *)

MaxLiveStreams == 3
MaxLiveChunks == 1
MaxLiveOrder == 2
MaxObClears == 2

LiveIds == {<<"a">>, <<"b">>}
LiveOrders == 0..MaxLiveOrder
LiveTexts == {<<"x">>, <<" ", "y">>}

LiveEventNames ==
  {"live_translation_start", "live_translation_chunk", "live_translation_done",
   "live_translation_error"}

ClearEventNames == {"segment_list_cleared", "live_translation_cleared"}

\* EguiApp::reset_live
reset_live(self) ==
  [self EXCEPT !.live_final = <<>>,
               !.live_stream_order = 0,
               !.live_stream_set = FALSE,
               !.live_stream_id = <<>>]

\* the start, done and error arms: the stream is taken when none is set or
\* its order is not below the displayed one
TakeStream(self, payload, final) ==
  IF ~self.live_stream_set \/ payload.order >= self.live_stream_order
    THEN [self EXCEPT !.live_stream_set = TRUE,
                      !.live_stream_order = payload.order,
                      !.live_stream_id = payload.id,
                      !.live_final = final]
    ELSE self

\* the chunk arm
TakeChunk(self, payload) ==
  IF ~self.live_stream_set \/ payload.order < self.live_stream_order
    THEN self
  ELSE IF self.live_stream_id # <<>> /\ payload.id # self.live_stream_id
    THEN self
  ELSE LET moved ==
             IF payload.order > self.live_stream_order
               THEN [self EXCEPT !.live_stream_order = payload.order,
                                 !.live_stream_id = payload.id,
                                 !.live_final = <<>>]
               ELSE self
       IN [moved EXCEPT !.live_final = moved.live_final \o payload.text]

\* EguiApp::handle_event on the live translation fields
handle_event(self, name, payload) ==
  CASE name \in ClearEventNames -> reset_live(self)
    [] name = "live_translation_start" -> TakeStream(self, payload, <<>>)
    [] name = "live_translation_chunk" -> TakeChunk(self, payload)
    [] name = "live_translation_done" -> TakeStream(self, payload, Trim(payload.text))
    [] name = "live_translation_error" -> TakeStream(self, payload, payload.text)
    [] OTHER -> self

LivePayload(id, order, text) == [id |-> id, order |-> order, text |-> text]

\* the highest order among the live translation events handled since the last
\* clear, the event e included
SeenAfter(e) ==
  IF e.name \in LiveEventNames
    THEN IF IsSome(e.seen) THEN Some(Max2(Unwrap(e.seen), e.order)) ELSE Some(e.order)
    ELSE None

\* the observer handles one event
Observe(name, payload) ==
  /\ ob' = handle_event(ob, name, payload)
  /\ ob_last' = [name |-> name, order |-> payload.order, id |-> payload.id,
                 before |-> ob, seen |-> SeenAfter(ob_last)]

SeqWithout(seq, i) == SubSeq(seq, 1, i - 1) \o SubSeq(seq, i + 1, Len(seq))

ObserverFrame ==
  UNCHANGED <<shvars, qvars, capvars, pipevars, wsvars, ck, ragvars,
              pj_index, pj_ret, pj_count, auxvars>>

\* translate_live up to the start event
LiveStart(id, order) ==
  /\ ob_count.events < MaxLiveStreams
  /\ ob_streams' = Append(ob_streams, [id |-> id, order |-> order, chunks |-> 0])
  /\ ob_count' = [ob_count EXCEPT !.events = @ + 1]
  /\ Observe("live_translation_start", LivePayload(id, order, <<>>))
  /\ ObserverFrame

\* a streaming translation emits one chunk
LiveChunk(i, chunk) ==
  /\ i \in 1..Len(ob_streams)
  /\ ob_streams[i].chunks < MaxLiveChunks
  /\ ob_streams' = [ob_streams EXCEPT ![i].chunks = @ + 1]
  /\ Observe("live_translation_chunk",
             LivePayload(ob_streams[i].id, ob_streams[i].order, chunk))
  /\ UNCHANGED ob_count
  /\ ObserverFrame

\* translate_live ends with the translation
LiveDone(i, translation) ==
  /\ i \in 1..Len(ob_streams)
  /\ ob_streams' = SeqWithout(ob_streams, i)
  /\ Observe("live_translation_done",
             LivePayload(ob_streams[i].id, ob_streams[i].order, translation))
  /\ UNCHANGED ob_count
  /\ ObserverFrame

\* translate_live ends with an error
LiveError(i, error) ==
  /\ i \in 1..Len(ob_streams)
  /\ ob_streams' = SeqWithout(ob_streams, i)
  /\ Observe("live_translation_error",
             LivePayload(ob_streams[i].id, ob_streams[i].order, error))
  /\ UNCHANGED ob_count
  /\ ObserverFrame

\* CaptureManager::clear emits segment_list_cleared and then
\* live_translation_cleared; the observer handles one of them, and the streams
\* in flight go on
LiveCleared(name) ==
  /\ ob_count.clears < MaxObClears
  /\ ob_count' = [ob_count EXCEPT !.clears = @ + 1]
  /\ Observe(name, LivePayload(<<>>, 0, <<>>))
  /\ UNCHANGED ob_streams
  /\ ObserverFrame

InitObserver ==
  /\ InitShared /\ InitQueueCalls /\ InitCaptureThreads /\ InitPipelineThreads
  /\ InitWhisperIdle
  /\ ck = ChunkerIdle
  /\ InitRagIdle
  /\ InitAuxIdle
  /\ InitProjectsIdle
  /\ InitObserverIdle
  /\ config = AudioConfig(4, 2, 0, 0, 0, FALSE, FALSE)
  /\ budget = [starts |-> 0, stops |-> 0, clears |-> 0, translates |-> 0]

NextObserver ==
  \/ \E id \in LiveIds, order \in LiveOrders : LiveStart(id, order)
  \/ \E i \in 1..MaxLiveStreams, chunk \in LiveTexts : LiveChunk(i, chunk)
  \/ \E i \in 1..MaxLiveStreams, translation \in LiveTexts : LiveDone(i, translation)
  \/ \E i \in 1..MaxLiveStreams, error \in LiveTexts : LiveError(i, error)
  \/ \E name \in ClearEventNames : LiveCleared(name)

SpecObserver == InitObserver /\ [][NextObserver]_vars

\* the last event was a live translation event
LiveEventHandled == ob_last.name \in LiveEventNames

\* the last event changed what the observer displays as live translation
DisplayChanged == ob.live_final # ob_last.before.live_final

\* the last event carried an order below the highest order already seen
BelowSeen == IsSome(ob_last.seen) /\ ob_last.order < Unwrap(ob_last.seen)

\* C22: between two clear events the order of the displayed live
\* translation stream never decreases, and a live translation start, chunk,
\* done or error event whose order is lower than the highest order already
\* seen never changes the displayed live translation.
C22_OlderStreamNeverDisplayed ==
  LiveEventHandled =>
    /\ ob.live_stream_order >= ob_last.before.live_stream_order
    /\ BelowSeen => ~DisplayChanged

-----------------------------------------------------------------------------
(* SpecContext: the whisper context policy of run_transcription_worker.     *)
(* The worker owns one WhisperContextState; for each task it loads the      *)
(* segment's meta, asks prompt_for when the meta exists, transcribes, and   *)
(* hands the sanitized transcript to observe_result. Times are in           *)
(* milliseconds from an arbitrary origin.                                   *)

MaxCtxTasks == 3
MaxCtxTime == 4

WHISPER_CONTEXT_HISTORY_MULTIPLIER == 3

\* the policies from_asr can build, in the model's units (max_chars >= 1)
ContextPolicies ==
  [enabled : BOOLEAN, max_chars : {1, 2}, short_segment_ms : {1},
   boundary_gap_ms : {1, 3}, reset_silence_ms : {2}]

\* load_segment_context_meta: None when the segment is not in the list,
\* created_at None when the stored string does not parse
SegmentContextMeta(duration_ms, created_at, speaker_changed) ==
  [duration_ms |-> duration_ms, created_at |-> created_at,
   speaker_changed |-> speaker_changed]

ContextMetas ==
  {SegmentContextMeta(duration_ms, created_at, speaker_changed) :
     duration_ms \in {1, 2},
     created_at \in {None} \cup {Some(t) : t \in 0..MaxCtxTime},
     speaker_changed \in BOOLEAN}

\* the sanitized transcripts handed to observe_result
ContextTranscripts ==
  {None, Some(<<>>), Some(<<" ">>), Some(<<"a">>), Some(<<" ", "b", " ">>),
   Some(<<"a", "b", "c">>)}

segment_end_at(meta) ==
  IF meta.created_at = None THEN None
  ELSE Some(Unwrap(meta.created_at) + meta.duration_ms)

\* the first max_chars characters
take_head_chars(text, max_chars) ==
  IF max_chars = 0 THEN <<>>
  ELSE IF Len(text) <= max_chars THEN text
  ELSE SubSeq(text, 1, max_chars)

take_tail_chars(text, max_chars) ==
  IF max_chars = 0 THEN <<>>
  ELSE IF Len(text) <= max_chars THEN text
  ELSE SubSeq(text, Len(text) - max_chars + 1, Len(text))

gap_ms(self, meta) ==
  IF meta.created_at = None \/ self.previous_end_at = None THEN None
  ELSE Some(Max2(Unwrap(meta.created_at) - Unwrap(self.previous_end_at), 0))

\* gap.is_some_and(|gap| gap >= limit)
GapAtLeast(gap, limit) == IsSome(gap) /\ Unwrap(gap) >= limit

\* the state prompt_for leaves and the prompt it returns
prompt_for(self, meta) ==
  IF ~self.policy.enabled THEN [self |-> self, ret |-> None]
  ELSE
    LET gap == gap_ms(self, meta)
        after == IF meta.speaker_changed \/ GapAtLeast(gap, self.policy.reset_silence_ms)
                 THEN [self EXCEPT !.history = <<>>]
                 ELSE self
        is_short == meta.duration_ms <= self.policy.short_segment_ms
        is_boundary == meta.speaker_changed \/ GapAtLeast(gap, self.policy.boundary_gap_ms)
    IN IF Trim(after.history) = <<>> THEN [self |-> after, ret |-> None]
       ELSE IF ~is_short /\ ~is_boundary THEN [self |-> after, ret |-> None]
       ELSE [self |-> after,
             ret |-> Some(take_tail_chars(after.history, self.policy.max_chars))]

observe_result(self, meta, transcript) ==
  LET timed == IF IsSome(meta)
               THEN [self EXCEPT !.previous_end_at = segment_end_at(Unwrap(meta))]
               ELSE self
      text == IF IsSome(transcript) THEN Trim(Unwrap(transcript)) ELSE <<>>
      joined == IF timed.history # <<>> THEN timed.history \o <<" ">> \o text ELSE text
      keep_chars == Max2(timed.policy.max_chars * WHISPER_CONTEXT_HISTORY_MULTIPLIER,
                         timed.policy.max_chars)
  IN IF ~timed.policy.enabled THEN timed
     ELSE IF text = <<>> THEN timed
     ELSE [timed EXCEPT !.history = take_tail_chars(joined, keep_chars)]

ContextFrame == UNCHANGED <<shvars, qvars, capvars, pipevars, wsvars, ck, ragvars, appvars, sp>>

\* the worker takes a task whose segment is in the list and asks for a prompt
CtxPrompt(meta) ==
  /\ wc.pc = "recv"
  /\ wc.tasks < MaxCtxTasks
  /\ \E r \in {prompt_for(wc.state, meta)} :
       wc' = [wc EXCEPT !.state = r.self, !.pc = "asr", !.meta = Some(meta),
                        !.tasks = @ + 1,
                        !.last = [called |-> TRUE, meta |-> Some(meta),
                                  before |-> wc.state.history,
                                  previous_end_at |-> wc.state.previous_end_at,
                                  ret |-> r.ret]]
  /\ ContextFrame

\* the worker takes a task whose segment is no longer in the list
CtxNoMeta ==
  /\ wc.pc = "recv"
  /\ wc.tasks < MaxCtxTasks
  /\ wc' = [wc EXCEPT !.pc = "asr", !.meta = None, !.tasks = @ + 1, !.last = NoPrompt]
  /\ ContextFrame

\* transcribe_file and sanitize_transcript_text have returned
CtxObserve(transcript) ==
  /\ wc.pc = "asr"
  /\ wc' = [wc EXCEPT !.state = observe_result(wc.state, wc.meta, transcript),
                      !.pc = "recv", !.last = NoPrompt]
  /\ ContextFrame

InitContext ==
  /\ InitShared /\ InitQueueCalls /\ InitCaptureThreads /\ InitPipelineThreads
  /\ InitWhisperIdle /\ ck = ChunkerIdle /\ InitRagIdle /\ InitAppIdle
  /\ config = AudioConfig(4, 2, 0, 0, 0, FALSE, FALSE)
  /\ budget = [starts |-> 0, stops |-> 0, clears |-> 0, translates |-> 0]
  /\ \E policy \in ContextPolicies : wc = ContextIdle(policy)
  /\ sp = SpeakerIdle([new_threshold |-> 0, update_threshold |-> 0, max_speakers |-> None])

NextContext ==
  \/ \E meta \in ContextMetas : CtxPrompt(meta)
  \/ CtxNoMeta
  \/ \E transcript \in ContextTranscripts : CtxObserve(transcript)

SpecContext == InitContext /\ [][NextContext]_vars

\* the gap prompt_for computed in its last call
LastGap == gap_ms([previous_end_at |-> wc.last.previous_end_at], Unwrap(wc.last.meta))

\* the history after the reset step of the last prompt_for call
PostResetHistory ==
  IF Unwrap(wc.last.meta).speaker_changed
       \/ GapAtLeast(LastGap, wc.state.policy.reset_silence_ms)
  THEN <<>>
  ELSE wc.last.before

\* C32: prompt_for clears the history when speaker_changed or gap_ms >=
\* reset_silence_ms (and leaves it as it was otherwise); it returns a prompt
\* only if the history after that reset is not empty and (duration <=
\* short_segment_ms or speaker_changed or gap_ms >= boundary_gap_ms); a prompt
\* it returns is exactly the last max_chars characters of the history.
C32_PromptOnlyAtBoundaryFromTail ==
  wc.last.called =>
    LET meta == Unwrap(wc.last.meta)
        policy == wc.state.policy
        ret == wc.last.ret
        n == Len(PostResetHistory)
    IN /\ wc.state.history = PostResetHistory
       /\ IsSome(ret) =>
            /\ PostResetHistory # <<>>
            /\ \/ meta.duration_ms <= policy.short_segment_ms
               \/ meta.speaker_changed
               \/ GapAtLeast(LastGap, policy.boundary_gap_ms)
            /\ Len(Unwrap(ret)) = IF n < policy.max_chars THEN n ELSE policy.max_chars
            /\ \A i \in 1..Len(Unwrap(ret)) :
                 Unwrap(ret)[i] = PostResetHistory[n - Len(Unwrap(ret)) + i]

\* a prompt shorter than the history was returned for a long segment that
\* follows a gap of at least boundary_gap_ms
C32_Witness ==
  /\ wc.last.called
  /\ IsSome(wc.last.ret)
  /\ Len(Unwrap(wc.last.ret)) < Len(wc.state.history)
  /\ Unwrap(wc.last.meta).duration_ms > wc.state.policy.short_segment_ms
  /\ GapAtLeast(LastGap, wc.state.policy.boundary_gap_ms)

-----------------------------------------------------------------------------
(* SpecSpeaker: audio/speaker.rs, the SpeakerClusterer under classify calls. *)
(* An embedding is a vector of tenths (a unit vector has length 10), a       *)
(* similarity or a threshold is a number of hundredths.                      *)

MaxClassify == 4

DEFAULT_UPDATE_ALPHA_TENTHS == 8

\* normalized embeddings of two dimensions
SpeakerEmbeddings == {<<10, 0>>, <<0, 10>>, <<0 - 10, 0>>, <<6, 8>>, <<8, 6>>}

\* the DiarizerConfig values SpeakerDiarizer::new can build: update_threshold
\* is at least new_threshold, max_speakers is always Some
DiarizerConfigs ==
  {[new_threshold |-> nt, update_threshold |-> Max2(ut, nt), max_speakers |-> Some(limit)] :
     nt \in {50, 75}, ut \in {60, 100}, limit \in 0..2}

SpeakerProfile(id, centroid) == [id |-> id, centroid |-> centroid]

SpeakerDecision(speaker_id, similarity, mixed) ==
  [speaker_id |-> speaker_id, similarity |-> similarity, mixed |-> mixed]

\* cosine_similarity of speaker.rs: the dot product over the shorter length
speaker_cosine_similarity(left, right) ==
  LET n == IF Len(left) < Len(right) THEN Len(left) ELSE Len(right)
      F[i \in 0..n] == IF i = 0 THEN 0 ELSE F[i - 1] + left[i] * right[i]
  IN F[n]

\* the integer part of the square root
FloorSqrt(n) == CHOOSE r \in 0..15 : r * r <= n /\ (r + 1) * (r + 1) > n

\* normalize_embedding of speaker.rs, to the precision of tenths
speaker_normalize_embedding(embedding) ==
  LET norm == FloorSqrt(speaker_cosine_similarity(embedding, embedding))
  IN IF norm = 0 THEN embedding
     ELSE [i \in 1..Len(embedding) |-> (embedding[i] * 10) \div norm]

\* update_centroid: alpha * centroid + (1 - alpha) * embedding, renormalized
update_centroid(centroid, embedding, alpha) ==
  speaker_normalize_embedding(
    [i \in 1..Len(centroid) |->
       (alpha * centroid[i] + (10 - alpha) * embedding[i]) \div 10])

\* the similarities of the profiles to the embedding
Similarities(speakers, embedding) ==
  [i \in 1..Len(speakers) |-> speaker_cosine_similarity(speakers[i].centroid, embedding)]

\* the loop of classify: the first index of the greatest similarity
BestIdx(speakers, embedding) ==
  LET sims == Similarities(speakers, embedding)
  IN CHOOSE i \in 1..Len(speakers) :
       /\ \A j \in 1..Len(speakers) : sims[j] <= sims[i]
       /\ \A j \in 1..(i - 1) : sims[j] < sims[i]

\* config.max_speakers.map(|limit| len >= limit).unwrap_or(false)
AtMax(speakers, cfg) ==
  IsSome(cfg.max_speakers) /\ Len(speakers) >= Unwrap(cfg.max_speakers)

\* the clusterer classify leaves and the decision it returns
classify(self, embedding, cfg) ==
  IF self.speakers = <<>>
  THEN [self |-> [speakers |-> <<SpeakerProfile(self.next_id, embedding)>>,
                  next_id |-> self.next_id + 1],
        decision |-> SpeakerDecision(Some(self.next_id), None, FALSE)]
  ELSE
    LET best_idx == BestIdx(self.speakers, embedding)
        best_sim == Similarities(self.speakers, embedding)[best_idx]
    IN IF best_sim < cfg.new_threshold
       THEN IF AtMax(self.speakers, cfg)
            THEN [self |-> self, decision |-> SpeakerDecision(None, Some(best_sim), FALSE)]
            ELSE [self |-> [speakers |-> Append(self.speakers,
                                                SpeakerProfile(self.next_id, embedding)),
                            next_id |-> self.next_id + 1],
                  decision |-> SpeakerDecision(Some(self.next_id), Some(best_sim), FALSE)]
       ELSE [self |-> IF best_sim >= cfg.update_threshold
                      THEN [self EXCEPT !.speakers[best_idx].centroid =
                              update_centroid(@, embedding, DEFAULT_UPDATE_ALPHA_TENTHS)]
                      ELSE self,
             decision |-> SpeakerDecision(Some(self.speakers[best_idx].id),
                                          Some(best_sim), FALSE)]

SpeakerFrame == UNCHANGED <<shvars, qvars, capvars, pipevars, wsvars, ck, ragvars, appvars, wc>>

\* process_window has an embedding and hands it to the clusterer
Classify(embedding) ==
  /\ sp.calls < MaxClassify
  /\ \E r \in {classify(sp.clusterer, embedding, sp.config)} :
       sp' = [sp EXCEPT !.clusterer = r.self, !.calls = @ + 1,
                        !.last = [called |-> TRUE, before |-> sp.clusterer,
                                  embedding |-> embedding, decision |-> Some(r.decision)]]
  /\ SpeakerFrame

InitSpeaker ==
  /\ InitShared /\ InitQueueCalls /\ InitCaptureThreads /\ InitPipelineThreads
  /\ InitWhisperIdle /\ ck = ChunkerIdle /\ InitRagIdle /\ InitAppIdle
  /\ config = AudioConfig(4, 2, 0, 0, 0, FALSE, FALSE)
  /\ budget = [starts |-> 0, stops |-> 0, clears |-> 0, translates |-> 0]
  /\ wc = ContextIdle(WhisperContextPolicy_default)
  /\ \E cfg \in DiarizerConfigs : sp = SpeakerIdle(cfg)

NextSpeaker == \E embedding \in SpeakerEmbeddings : Classify(embedding)

SpecSpeaker == InitSpeaker /\ [][NextSpeaker]_vars

\* the last classify call found profiles, all less similar than new_threshold,
\* with the cap reached
RefusedAtCap ==
  /\ sp.last.called
  /\ sp.last.before.speakers # <<>>
  /\ \A i \in 1..Len(sp.last.before.speakers) :
       speaker_cosine_similarity(sp.last.before.speakers[i].centroid, sp.last.embedding)
         < sp.config.new_threshold
  /\ Len(sp.last.before.speakers) >= Unwrap(sp.config.max_speakers)

\* the greatest similarity of the last embedding to the profiles before the call
BestSimilarity ==
  LET sims == Similarities(sp.last.before.speakers, sp.last.embedding)
  IN CHOOSE s \in {sims[i] : i \in DOMAIN sims} : \A i \in DOMAIN sims : sims[i] <= s

\* the ids are 1, 2, 3, ... in creation order; at the cap classify returns no
\* speaker, the similarity, and creates no profile
IdsInOrderRefusedAtCap ==
  /\ \A i \in 1..Len(sp.clusterer.speakers) : sp.clusterer.speakers[i].id = i
  /\ RefusedAtCap =>
       /\ Unwrap(sp.last.decision).speaker_id = None
       /\ Unwrap(sp.last.decision).similarity = Some(BestSimilarity)
       /\ sp.clusterer = sp.last.before

\* C33: after any sequence of classify calls the number of speaker profiles
\* never exceeds max_speakers and the profile ids are distinct, assigned
\* 1, 2, 3, ... in creation order; when the best similarity is below
\* new_threshold and the cap is reached, classify returns speaker_id = none
\* together with the similarity and creates no profile.
C33_ProfilesWithinCapIdsInOrder ==
  /\ Len(sp.clusterer.speakers) <= Unwrap(sp.config.max_speakers)
  /\ IdsInOrderRefusedAtCap

-----------------------------------------------------------------------------
(* SpecQueue: the TranslationQueue under arbitrary calls *)

QNames == 1..MaxNames
QOrders == (0..MaxOrder) \cup {UsizeMax}

InitQueue ==
  /\ InitShared /\ InitQueueCalls /\ InitCaptureThreads /\ InitPipelineThreads
  /\ InitServices
  /\ config = AudioConfig(4, 2, 0, 0, 0, FALSE, FALSE)
  /\ budget = [starts |-> 0, stops |-> 0, clears |-> 0, translates |-> 0]

QueueFrame ==
  UNCHANGED <<svcvars, segments, disk, translation_pending, transcription_generation,
              translation_generation, drop_segment_translation,
              translation_in_flight, transcribe_rx, queues, handle, stop,
              capvars, pipevars>>

QPush(name, order) ==
  /\ q_clock < MaxPushes
  /\ translation_queue' =
       TranslationQueue_push(translation_queue, TranslationRequest(name, None, order, 0))
  /\ q_clock' = q_clock + 1
  /\ q_stamp' = IF name \in translation_queue.pending THEN q_stamp
                ELSE [n \in DOMAIN q_stamp \cup {name} |->
                        IF n = name THEN q_clock + 1 ELSE q_stamp[n]]
  /\ q_ret' = None
  /\ QueueFrame

\* pop blocks on the condition variable while items is empty
QPop ==
  /\ translation_queue.items # <<>>
  /\ q_ret' = Some(TranslationQueue_front(translation_queue))
  /\ translation_queue' = TranslationQueue_pop(translation_queue)
  /\ UNCHANGED <<q_clock, q_stamp>>
  /\ QueueFrame

QTryPop ==
  /\ IF translation_queue.items = <<>>
     THEN /\ q_ret' = None
          /\ UNCHANGED translation_queue
     ELSE /\ q_ret' = Some(TranslationQueue_front(translation_queue))
          /\ translation_queue' = TranslationQueue_pop(translation_queue)
  /\ UNCHANGED <<q_clock, q_stamp>>
  /\ QueueFrame

QClear ==
  /\ translation_queue' = TranslationQueue_clear(translation_queue)
  /\ q_ret' = None
  /\ UNCHANGED <<q_clock, q_stamp>>
  /\ QueueFrame

NextQueue ==
  \/ \E name \in QNames, order \in QOrders : QPush(name, order)
  \/ QPop
  \/ QTryPop
  \/ QClear

SpecQueue == InitQueue /\ [][NextQueue]_vars

\* C3: the queued requests are sorted by order ascending, requests of equal
\* order stay in the order in which they were pushed, and the request a pop or
\* try_pop has just returned is no larger in order than any request left.
C3_QueueSortedPopsSmallest ==
  LET items == translation_queue.items
  IN /\ \A i, j \in 1..Len(items) :
          i < j => /\ items[i].order <= items[j].order
                   /\ items[i].order = items[j].order
                        => q_stamp[items[i].name] < q_stamp[items[j].name]
     /\ IsSome(q_ret) => \A i \in 1..Len(items) : Unwrap(q_ret).order <= items[i].order

\* a pop has returned a request while a request of the same order and one of a
\* larger order are still queued
C3_Witness ==
  /\ IsSome(q_ret)
  /\ \E i, j \in 1..Len(translation_queue.items) :
        /\ i < j
        /\ translation_queue.items[i].order = Unwrap(q_ret).order
        /\ translation_queue.items[j].order > Unwrap(q_ret).order

\* the names of the requests in the queue
QueuedNames(q) == {q.items[i].name : i \in 1..Len(q.items)}

\* C31: at every moment the queue holds at most one request per segment name
\* and its pending set is exactly the set of the names of the queued requests;
\* a push of a request whose name is already queued leaves the queue unchanged.
C31_OneRequestPerNamePendingExact ==
  /\ [](/\ \A i, j \in 1..Len(translation_queue.items) :
             translation_queue.items[i].name = translation_queue.items[j].name => i = j
        /\ translation_queue.pending = QueuedNames(translation_queue))
  /\ [][\A name \in QNames, order \in QOrders :
          (name \in QueuedNames(translation_queue) /\ QPush(name, order))
            => UNCHANGED translation_queue]_vars

\* two requests are queued and the last push call found its name queued: no
\* request carries the stamp of that call
C31_Witness ==
  /\ Len(translation_queue.items) >= 2
  /\ q_clock > 0
  /\ q_ret = None
  /\ \A n \in DOMAIN q_stamp : q_stamp[n] < q_clock

====
